---- MODULE Spec2Model ----
(***************************************************************************)
(* Verification model of hyp3rd/go-base-app-skel: the asynchronous logger  *)
(* adapter (package adapter), the output writers (package output:          *)
(* FileWriter, ConsoleWriter, MultiWriter), and beside the logger the      *)
(* database Monitor and Manager (package pg), the GCP secrets Provider     *)
(* (package gcp) and the Config with its secrets (package config).         *)
(*                                                                         *)
(* Each subsystem has its own specification over the module's variables:   *)
(*   SpecLog    the adapter: producers, bounded queue, worker, Sync        *)
(*   SpecLevel  the adapter: level check under SetLevel and WithFields     *)
(*   SpecLive   the adapter before shutdown, with fair scheduling          *)
(*   SpecRace   the adapter: log calls beside SetLevel in its lock         *)
(*   SpecFifo   the adapter with a queue of several entries: write order   *)
(*   SpecFail   the adapter whose writes to the output fail                *)
(*   SpecFields the loggers derived by WithFields and their field lists    *)
(*   SpecRender the rendering of entries in text and in JSON format        *)
(*   SpecClose  Close and Sync on File / Console / Multi writers           *)
(*   SpecMW     MultiWriter: NewMultiWriter, AddWriter, RemoveWriter, Write *)
(*   SpecIter   the logger's loop over mw.Writers beside Close, AddWriter  *)
(*              and RemoveWriter                                           *)
(*   SpecFW     FileWriter: Write and rotate                               *)
(*   SpecGZ     FileWriter: rotation and the compression of the backups    *)
(*   SpecBG     FileWriter: writes beside compression tasks that succeed   *)
(*   SpecPool   writeLog and the buffers of bufferPool                     *)
(*   SpecMain   cmd/pg/monitor: logging, then the deferred Sync and Close  *)
(*   SpecMon    Monitor: TrackQuery, collectMetrics, GetHealthStatus       *)
(*   SpecHist   Monitor: the bounded histories of metrics and errors       *)
(*   SpecPG     Manager: Connect with its retries, and Transaction         *)
(*   SpecGCP    Provider: New and the retry loop of GetSecret              *)
(*   SpecConfig Config: NewConfig, then ReloadSecrets and RotateSecrets    *)
(*   SpecRotate Config with a secrets manager: the rotation step           *)
(* A specification leaves the variables of the other subsystems unchanged. *)
(***************************************************************************)
EXTENDS Integers, Sequences, FiniteSets, TLC

(***************************************************************************)
(* Bounds of the model.                                                    *)
(***************************************************************************)
\* total number of log calls made by all producers
MaxCalls == 3
\* capacity of the adapter's queue (config.AsyncBufferSize)
QueueCap == 1
\* number of adapters of one family (the root and the derived ones)
MaxAdapters == 2
\* number of Sync calls made by the shutdown path
MaxSyncs == 2
\* number of adapters of a family that only derives loggers
MaxFamily == 4
\* longest field list handed to WithFields
MaxFieldsArg == 1

\* longest argument list of NewMultiWriter
MaxNew == 2
\* longest writer list of a MultiWriter
MaxWriters == 3
\* longest payload handed to MultiWriter.Write
MaxPayload == 1

\* number of Close and Sync calls made on the writers
MaxCloses == 3

\* number of FileWriter.Write calls
MaxWrites == 3
\* longest payload handed to FileWriter.Write
MaxData == 2
\* largest FileConfig.MaxSize
MaxSizeLimit == 2
\* number of compression tasks
MaxTasks == 2
\* largest size of the log file found by NewFileWriter
MaxInitSize == 2
\* last second of the clock read by rotate
MaxClock == 1
\* number of I/O errors the file system produces
MaxFaults == 1

(***************************************************************************)
(* logger.Level: Trace < Debug < Info < Warn < Error < Fatal.              *)
(***************************************************************************)
TraceLevel == 0
DebugLevel == 1
InfoLevel == 2
WarnLevel == 3
ErrorLevel == 4
FatalLevel == 5

Levels == {TraceLevel, DebugLevel, InfoLevel, WarnLevel, ErrorLevel, FatalLevel}

\* the goroutines that call the logging methods
Producers == {"p1", "p2"}

\* the field lists handed to WithFields
FieldArgs == {<<<<"a", 1>>>>}

\* the output.Writer objects of the program, and the nil Writer
WriterIds == {"w1", "w2"}
Nil == "nil"

\* %T of a writer
WriterType(w) == IF w = "w2" THEN "*output.FileWriter" ELSE "*output.ConsoleWriter"

\* writerNames[w] of a writer that has no entry in the map: the empty string
NoName == <<>>

VARIABLES
    \* ---- adapter family (package adapter) ----
    adapters,    \* sequence of adapters; adapters[1] is the root
    heap,        \* the backing arrays of the adapters' field slices
    buffer,      \* the shared channel a.buffer: queued entries (call ids)
    bufClosed,   \* close(a.buffer) has happened
    doneClosed,  \* close(a.done) has happened
    wpc,         \* position of the background worker processLogs
    wcur,        \* entry the worker holds (0: none)
    asyncBufferSize, \* config.AsyncBufferSize: the capacity of a.buffer
    byProducer,  \* the call history records which producer made each call
    ppc,         \* position of each producer inside log
    pcur,        \* call each producer is executing and its adapter (0: none)
    calls,       \* history: one record per log call: how it was handled, when
                 \* it returned, and whether the writers took its entry
                 \* ("none": not handed to them, "complete", "issue")
    sink,        \* entries written to config.Output, in write order
    stderr,      \* history: the write issues reported on os.Stderr
    spc,         \* position of the shutdown path inside Sync
    syncCount,   \* number of Sync calls that returned
    syncRet,     \* what the last Sync returned
    panicked,    \* "none", or the runtime panic that ended the process
    atSync,      \* history: the queue content when Sync was invoked
    enableJSON,  \* config.EnableJSON
    additionalFields, \* config.AdditionalFields
    rendered,    \* history: the entries that formatEntry has rendered
    \* ---- MultiWriter (package output) ----
    mwWriters,   \* mw.Writers
    mwNames,     \* mw.writerNames
    mwLast,      \* the Write that is returning: payload length, per-writer
                 \* results, return values (NoWrite: no call in progress)
    mwMu,        \* mw.mu: "free", or the call that holds it
    mwCap,       \* cap(mw.Writers)
    closing,     \* position of MultiWriter.Close inside its loop
    ranging,     \* position of the logger's collectWriteResults inside its
                 \* range loop, and the backing array that it ranges over
    closedSubs,  \* history: the writers that MultiWriter.Close has closed
    collected,   \* history: one record per Write made by collectWriteResults
    \* ---- Monitor (package pg) ----
    metrics,     \* m.metrics: the stored QueryMetrics (numbers of the calls)
    maxMetrics,  \* m.maxMetrics
    healthStatus, \* *m.healthStatus: Connected, the PoolStats pointer, Errors,
                 \* MaxErrors
    poolStats,   \* the PoolStats objects that have been allocated
    snapshots,   \* history: what each GetHealthStatus call returned
    tracked,     \* history: number of TrackQuery calls
    pingErrors,  \* history: number of errors returned by Ping
    \* ---- ConsoleWriter w1 (package output) ----
    cwOut,       \* kind of the io.Writer held in w.out
    cwOutClosed, \* Close has been called on w.out
    closeLog,    \* history: one record per Close call on a writer
    syncLog,     \* history: one record per MultiWriter.Sync call
    \* ---- FileWriter w2 (package output) and its directory ----
    fwFile,      \* w.file: "open", "closedHandle" (closed *os.File), "nil"
    fwSize,      \* w.size
    fwMaxSize,   \* w.maxSize
    fwCompress,  \* w.compress
    files,       \* the directory: file name -> content (NoFile: absent)
    now,         \* time.Now() in seconds
    fwTasks,     \* the compression tasks started by `go w.compressFile`
    gzFiles,     \* the directory: backup name -> its ".gz" file (NoGz: absent)
    fwCalls,     \* history: one record per FileWriter.Write call
    fwRotations, \* history: number of rotations that renamed the file
    fwFaults,    \* number of I/O errors produced so far
    \* ---- Manager (package pg) ----
    pool,        \* m.pool: 0 is nil, else the number of the pool
    connAttempts,\* m.cfg.ConnAttempts
    connPc,      \* where Connect is: "idle", "attempt", "wait", "ping", "done"
    attempt,     \* the loop variable of Connect
    created,     \* history: the outcome of each pgxpool.NewWithConfig of the call
    connRet,     \* what Connect returned: "none", "nil", "error"
    ctxDone,     \* the context of Connect is cancelled
    connects,    \* number of Connect calls
    txs,         \* history: one record per Transaction call
    \* ---- Provider (package gcp) ----
    maxRetries,  \* p.config.MaxRetries
    gets,        \* history: one record per GetSecret call
    \* ---- Config (package config) and its secrets ----
    confState,   \* NewConfig: "none" not called, "ok" returned a Config, "failed"
    withProvider,\* opts.SecretsProvider != nil
    secretsManager, \* c.secretsManager: set (non-nil) or not, and its store
    cfgSecrets,  \* c.Secrets: <<>> is nil, else <<username, password>>
    cfgDB,       \* <<c.DB.Username, c.DB.Password>>
    provider,    \* <<DB_USERNAME, DB_PASSWORD>> held by the secrets provider
    confCalls,   \* number of ReloadSecrets and RotateSecrets calls
    confRet,     \* the last of them and what it returned
    \* ---- bufferPool (package adapter) ----
    bufFree,     \* the buffers in bufferPool
    bufBytes,    \* buffer -> the entry whose bytes it holds (0: empty)
    inWrite,     \* executor of writeLog -> where it is, its entry, its buf
    outMu,       \* a.mu as writeLog takes it: "free" or the holder
    written,     \* history: per sink write, the entry and the bytes written
    started      \* number of writeLog executions started

logVars == <<adapters, heap, buffer, bufClosed, doneClosed, wpc, wcur, ppc, pcur,
             calls, sink, stderr, spc, syncCount, syncRet, panicked, atSync>>

mwVars == <<mwWriters, mwCap, mwNames, mwLast>>

cwVars == <<cwOut, cwOutClosed, closeLog, syncLog>>

fwVars == <<fwFile, fwSize, fwMaxSize, fwCompress, files, now, fwTasks,
            gzFiles, fwCalls, fwRotations, fwFaults>>

\* fixed at construction
cfgVars == <<asyncBufferSize, byProducer>>

fmtVars == <<enableJSON, additionalFields, rendered>>

monVars == <<metrics, maxMetrics, healthStatus, poolStats, snapshots, tracked,
            pingErrors>>

pgVars == <<pool, connAttempts, connPc, attempt, created, connRet, ctxDone,
           connects, txs>>

\* the packages beside the logger
gcpVars == <<maxRetries, gets>>

confVars == <<confState, withProvider, secretsManager, cfgSecrets, cfgDB,
             provider, confCalls, confRet>>

poolVars == <<bufFree, bufBytes, inWrite, outMu, written, started>>

appVars == <<monVars, pgVars, gcpVars, confVars, poolVars>>

\* the logger's own loop over mw.Writers and a Close in progress
itVars == <<mwMu, closing, ranging, closedSubs, collected>>

vars == <<logVars, mwVars, cwVars, fwVars, cfgVars, fmtVars, itVars, appVars>>

notLog == <<mwVars, cwVars, fwVars, cfgVars, fmtVars, itVars, appVars>>
notMW == <<logVars, cwVars, fwVars, cfgVars, fmtVars, itVars, appVars>>
notFW == <<logVars, mwVars, cwVars, cfgVars, fmtVars, itVars, appVars>>
loggerVars == <<logVars, mwVars, cwVars, fwVars, cfgVars, fmtVars, itVars>>
notMon == <<loggerVars, pgVars, gcpVars, confVars, poolVars>>
notPG == <<loggerVars, monVars, gcpVars, confVars, poolVars>>
notGCP == <<loggerVars, monVars, pgVars, confVars, poolVars>>
notConf == <<loggerVars, monVars, pgVars, gcpVars, poolVars>>
notPool == <<loggerVars, monVars, pgVars, gcpVars, confVars>>
\* Close touches the writer list, the console writer and w.file
notClose == <<logVars, cfgVars, fmtVars, itVars, appVars, mwNames, mwLast, fwSize, fwMaxSize, fwCompress, files,
              now, fwTasks, gzFiles, fwCalls, fwRotations, fwFaults>>

(***************************************************************************)
(* Helpers                                                                 *)
(***************************************************************************)
RECURSIVE Count(_, _)
Count(x, s) ==
    IF s = <<>> THEN 0
    ELSE (IF Head(s) = x THEN 1 ELSE 0) + Count(x, Tail(s))

CallIds == 1..Len(calls)

\* a call was accepted by the level check of log
Accepted(c) == calls[c].how # "filtered"

NoCall == [id |-> 0, ad |-> 0]

\* no Monitor has been made
IdleMon ==
    /\ metrics = <<>>
    /\ maxMetrics = 0
    /\ healthStatus = [connected |-> FALSE, stats |-> 0, errors |-> <<>>,
                       maxErrors |-> 0]
    /\ poolStats = <<>>
    /\ snapshots = <<>>
    /\ tracked = 0
    /\ pingErrors = 0

\* no Manager has been made
IdlePG ==
    /\ pool = 0
    /\ connAttempts = 0
    /\ connPc = "idle"
    /\ attempt = 0
    /\ created = <<>>
    /\ connRet = "none"
    /\ ctxDone = FALSE
    /\ connects = 0
    /\ txs = <<>>

\* no Provider has been made
IdleGCP == maxRetries = 0 /\ gets = <<>>

\* no Config has been made
IdleConf ==
    /\ confState = "none"
    /\ withProvider = FALSE
    /\ secretsManager = [set |-> FALSE, store |-> <<0, 0>>]
    /\ cfgSecrets = <<>>
    /\ cfgDB = <<0, 0>>
    /\ provider = <<0, 0>>
    /\ confCalls = 0
    /\ confRet = [op |-> "none", ret |-> "none"]

\* who runs writeLog: the worker and the producers on the timeout path
Executors == {"worker"} \cup Producers

\* an empty bufferPool and nobody in writeLog
IdlePool ==
    /\ bufFree = {}
    /\ bufBytes = <<>>
    /\ inWrite = [t \in Executors |-> [pc |-> "idle", entry |-> 0, buf |-> 0]]
    /\ outMu = "free"
    /\ written = <<>>
    /\ started = 0

\* the packages beside the logger are not exercised
IdleApp == IdleMon /\ IdlePG /\ IdleGCP /\ IdleConf /\ IdlePool

\* text format, no global field, nothing rendered
NoFormat ==
    /\ enableJSON = FALSE
    /\ additionalFields = <<>>
    /\ rendered = <<>>

\* a subsystem that a specification does not exercise
IdleLog ==
    /\ adapters = <<>>
    /\ asyncBufferSize = 0
    /\ byProducer = FALSE
    /\ heap = <<>>
    /\ buffer = <<>>
    /\ bufClosed = FALSE
    /\ doneClosed = FALSE
    /\ wpc = "none"
    /\ wcur = 0
    /\ ppc = [p \in Producers |-> "idle"]
    /\ pcur = [p \in Producers |-> NoCall]
    /\ calls = <<>>
    /\ sink = <<>>
    /\ stderr = <<>>
    /\ spc = "idle"
    /\ syncCount = 0
    /\ syncRet = "none"
    /\ panicked = "none"
    /\ atSync = <<>>
    /\ NoFormat

\* what one sub-writer's Write can return for a payload of len bytes
Outcomes(len) == [n : 0..len, err : BOOLEAN]

NoWrite == [len |-> -1, results |-> <<>>, n |-> 0, err |-> <<>>]

\* the nil error of MultiWriter.Write (a non-nil error is <<report>>)
NilErr == <<>>

\* the logger is outside collectWriteResults
NoRange == [pc |-> "idle", n |-> 0, i |-> 0, arr |-> <<>>, shared |-> FALSE]

\* no Close in progress
NoClosing == [pc |-> "idle", i |-> 0]

\* no call holds mw.mu, the logger is outside its loop
NoIteration ==
    /\ mwMu = "free"
    /\ closing = NoClosing
    /\ ranging = NoRange
    /\ closedSubs = {}
    /\ collected = <<>>

IdleMW ==
    /\ mwWriters = <<>>
    /\ mwNames = [w \in WriterIds |-> NoName]
    /\ mwLast = NoWrite
    /\ mwCap = 0
    /\ NoIteration

\* what ConsoleWriter.out can hold: a writer that is no io.Closer, an
\* *os.File (os.Stdout when NewConsoleWriter is given nil), and an io.Closer
\* whose Close returns nil every time
OutKinds == {"buffer", "osFile", "nopCloser"}

IdleCW ==
    /\ cwOut = "buffer"
    /\ cwOutClosed = FALSE
    /\ closeLog = <<>>
    /\ syncLog = <<>>

\* the log file w.path, and its backup made in second t:
\* path + "." + time.Now().Format("2006-01-02T15-04-05")
Active == <<"app.log">>
Backup(t) == <<"app.log", t>>
FileNames == {Active} \cup {Backup(t) : t \in 0..MaxClock}

\* a name that is not in the directory
NoFile == <<-1>>

\* no file of the name path + ".gz"
NoGz == [ino |-> 0, stream |-> <<>>, state |-> "absent"]

IdleFW ==
    /\ fwFile = "nil"
    /\ fwSize = 0
    /\ fwMaxSize = 0
    /\ fwCompress = FALSE
    /\ files = [f \in FileNames |-> NoFile]
    /\ now = 0
    /\ fwTasks = <<>>
    /\ gzFiles = [t \in 0..MaxClock |-> NoGz]
    /\ fwCalls = <<>>
    /\ fwRotations = 0
    /\ fwFaults = 0

\* the process is alive: a Go panic that is not recovered ends every goroutine
Alive == panicked = "none"

SyncStarted == doneClosed

\* processLogs has returned (through the closed queue or through the drain loop)
WorkerExited == wpc \in {"exitedClosed", "exitedDrain"}

(***************************************************************************)
(* A []logger.Field is a slice header [arr, len, cap] into a backing array *)
(* of the heap; a Field is <<key, value>>.                                 *)
(***************************************************************************)
NilSlice == [arr |-> 0, len |-> 0, cap |-> 0]

\* the zero value of logger.Field
ZeroField == <<"", 0>>

\* the elements of slice sl
Elems(h, sl) == [i \in 1..sl.len |-> h[sl.arr][i]]

\* the field list of adapter a
FieldsOf(a) == Elems(heap, adapters[a].fields)

\* append(a.fields, fields...) on the receiver's slice: in place when the
\* capacity suffices, else into a new array of twice the length
deriveFieldsAppend(h, sl, fields) ==
    LET n == sl.len
        k == Len(fields)
    IN  IF n + k <= sl.cap
        THEN [heap |-> [h EXCEPT ![sl.arr] =
                           [i \in 1..sl.cap |->
                               IF i > n /\ i <= n + k THEN fields[i - n]
                               ELSE @[i]]],
              slice |-> [sl EXCEPT !.len = n + k]]
        ELSE [heap |-> Append(h, [i \in 1..(2 * (n + k)) |->
                                     IF i <= n THEN h[sl.arr][i]
                                     ELSE IF i <= n + k THEN fields[i - n]
                                     ELSE ZeroField]),
              slice |-> [arr |-> Len(h) + 1, len |-> n + k,
                         cap |-> 2 * (n + k)]]

\* make([]Field, len(a.fields), len(a.fields)+len(fields)), copy, append:
\* the new heap and the slice of the derived adapter
deriveFields(h, sl, fields) ==
    LET n == sl.len
        k == Len(fields)
    IN  [heap |-> Append(h, [i \in 1..(n + k) |->
                                IF i <= n THEN h[sl.arr][i]
                                ELSE fields[i - n]]),
         slice |-> [arr |-> Len(h) + 1, len |-> n + k, cap |-> n + k]]

(***************************************************************************)
(* NewAdapter: one adapter, an empty queue of capacity AsyncBufferSize,    *)
(* open done channel, one worker started.                                  *)
(***************************************************************************)
NewAdapter(lvl, size) ==
    /\ adapters = <<[level |-> lvl, fields |-> NilSlice, mu |-> "free"]>>
    /\ asyncBufferSize = size
    /\ heap = <<>>
    /\ buffer = <<>>
    /\ bufClosed = FALSE
    /\ doneClosed = FALSE
    /\ wpc = "select"
    /\ wcur = 0

\* no log call and no Sync call has been made
NoCalls ==
    /\ ppc = [p \in Producers |-> "idle"]
    /\ pcur = [p \in Producers |-> NoCall]
    /\ calls = <<>>
    /\ sink = <<>>
    /\ stderr = <<>>
    /\ spc = "idle"
    /\ syncCount = 0
    /\ syncRet = "none"
    /\ panicked = "none"
    /\ atSync = <<>>

\* a family whose queue has the given capacity; track: the history records
\* the producer of each call
InitFamily(size, track) ==
    /\ IdleApp
    /\ \E lvl \in Levels : NewAdapter(lvl, size)
    /\ byProducer = track
    /\ NoCalls
    /\ NoFormat
    /\ IdleMW
    /\ IdleCW
    /\ IdleFW

InitLog == InitFamily(QueueCap, FALSE)

(***************************************************************************)
(* adapter.log: the level check, then the select between the send on       *)
(* a.buffer and time.After(bufferTimeout).                                 *)
(***************************************************************************)
\* mutant: the call is dropped also at the minimum level itself
belowLevelOrEqual(level, a) == level <= adapters[a].level

\* the level check of log: the call is dropped when this holds
belowLevel(level, a) == level < adapters[a].level

\* the send case of the select is ready when the channel has room; a send on
\* a closed channel is chosen at once and panics
log(p, a, level) ==
    /\ Alive
    /\ ppc[p] = "idle"
    /\ Len(calls) < MaxCalls
    /\ LET id == Len(calls) + 1
           rec == [how |-> "filtered", ret |-> "no", res |-> "none",
                   by |-> IF byProducer THEN p ELSE "any"]
           phase == IF SyncStarted THEN "post" ELSE "pre"
       IN  IF belowLevel(level, a)
           THEN /\ calls' = Append(calls, [rec EXCEPT !.ret = phase])
                /\ UNCHANGED <<buffer, ppc, pcur, panicked>>
           ELSE IF bufClosed
           THEN /\ calls' = Append(calls, [rec EXCEPT !.how = "pending"])
                /\ panicked' = "send on closed channel"
                /\ UNCHANGED <<buffer, ppc, pcur>>
           ELSE IF Len(buffer) < asyncBufferSize
           THEN /\ calls' = Append(calls, [rec EXCEPT !.how = "queue", !.ret = phase])
                /\ buffer' = Append(buffer, id)
                /\ UNCHANGED <<ppc, pcur, panicked>>
           ELSE /\ calls' = Append(calls, [rec EXCEPT !.how = "pending"])
                /\ ppc' = [ppc EXCEPT ![p] = "blocked"]
                /\ pcur' = [pcur EXCEPT ![p] = [id |-> id, ad |-> a]]
                /\ UNCHANGED <<buffer, panicked>>
    /\ UNCHANGED <<adapters, heap, stderr, bufClosed, doneClosed, wpc, wcur, sink, spc,
                   syncCount, syncRet, atSync>>
    /\ UNCHANGED notLog

\* a producer blocked in the select: room appears and the send goes through,
\* or the channel is closed under it and the send panics
logSend(p) ==
    /\ Alive
    /\ ppc[p] = "blocked"
    /\ IF bufClosed
       THEN /\ panicked' = "send on closed channel"
            /\ UNCHANGED <<buffer, ppc, pcur, calls>>
       ELSE /\ Len(buffer) < asyncBufferSize
            /\ buffer' = Append(buffer, pcur[p].id)
            /\ calls' = [calls EXCEPT ![pcur[p].id].how = "queue",
                             ![pcur[p].id].ret = IF SyncStarted THEN "post" ELSE "pre"]
            /\ ppc' = [ppc EXCEPT ![p] = "idle"]
            /\ pcur' = [pcur EXCEPT ![p] = NoCall]
            /\ UNCHANGED panicked
    /\ UNCHANGED <<adapters, heap, stderr, bufClosed, doneClosed, wpc, wcur, sink, spc,
                   syncCount, syncRet, atSync>>
    /\ UNCHANGED notLog

\* mutant: on the timeout the entry is dropped instead of written
logTimeoutDrop(p) ==
    /\ Alive
    /\ ppc[p] = "blocked"
    /\ ppc' = [ppc EXCEPT ![p] = "idle"]
    /\ pcur' = [pcur EXCEPT ![p] = NoCall]
    /\ calls' = [calls EXCEPT ![pcur[p].id].how = "direct",
                     ![pcur[p].id].ret = IF SyncStarted THEN "post" ELSE "pre"]
    /\ UNCHANGED <<adapters, heap, stderr, buffer, bufClosed, doneClosed, wpc, wcur,
                   sink, spc, syncCount, syncRet, panicked, atSync>>
    /\ UNCHANGED notLog

\* a producer blocked in the select: time.After(bufferTimeout) fires and the
\* caller falls back to writeLog on its own goroutine
logTimeout(p) ==
    /\ Alive
    /\ ppc[p] = "blocked"
    /\ ppc' = [ppc EXCEPT ![p] = "fallback"]
    /\ calls' = [calls EXCEPT ![pcur[p].id].how = "direct"]
    /\ UNCHANGED <<adapters, heap, stderr, buffer, bufClosed, doneClosed, wpc, wcur, pcur,
                   sink, spc, syncCount, syncRet, panicked, atSync>>
    /\ UNCHANGED notLog

(***************************************************************************)
(* adapter.writeLog on adapter a by thread t: a.mu.Lock(), the write of    *)
(* the formatted entry to config.Output, a.mu.Unlock().                    *)
(***************************************************************************)
writeLogLock(a, t) ==
    /\ adapters[a].mu = "free"
    /\ adapters' = [adapters EXCEPT ![a].mu = t]
    /\ UNCHANGED <<heap, stderr>>

\* len(contents): the length of a formatted entry
contentsLen == MaxPayload

\* the type switch of writeLog: config.Output is the MultiWriter when one was
\* constructed, and a single writer otherwise
OutputIsMultiWriter == mwWriters # <<>>

\* what the writers of config.Output can return for one entry: one result per
\* writer of the MultiWriter, or the result of the single writer
WriteResults ==
    [1..(IF OutputIsMultiWriter THEN Len(mwWriters) ELSE 1) -> Outcomes(contentsLen)]

\* every writer wrote the whole entry and returned no error
Complete ==
    [k \in 1..(IF OutputIsMultiWriter THEN Len(mwWriters) ELSE 1) |->
        [n |-> contentsLen, err |-> FALSE]]

\* the write of an entry had an issue: a writer returned an error or a count
\* other than the length of the entry
HadIssue(results) ==
    \E k \in 1..Len(results) : results[k].err \/ results[k].n # contentsLen

\* what the call history keeps of the results of a write
WriteClass(results) == IF HadIssue(results) THEN "issue" ELSE "complete"

\* analyzeResults: the number of complete writes, and the positions of the
\* partial writes and of the writes that returned an error
analyzeResults(results, len) ==
    [successCount |-> Cardinality({k \in 1..Len(results) :
                         ~results[k].err /\ results[k].n = len}),
     incompleteWrites |-> {k \in 1..Len(results) :
                         ~results[k].err /\ results[k].n # len},
     errorWrites |-> {k \in 1..Len(results) : results[k].err}]

\* the message printed on os.Stderr for an entry
WriteIssue(entry, successCount, total) ==
    [entry |-> entry, successCount |-> successCount, total |-> total]

\* handleMultiWriter: what it prints on os.Stderr (<<>>: nothing)
handleMultiWriter(results, len, entry) ==
    LET r == analyzeResults(results, len)
    IN  IF r.errorWrites # {} \/ r.incompleteWrites # {}
        THEN <<WriteIssue(entry, r.successCount, Len(results))>>
        ELSE <<>>

\* handleSingleWriter: what it prints on os.Stderr (<<>>: nothing)
handleSingleWriter(result, len, entry) ==
    IF result.err \/ result.n # len
    THEN <<WriteIssue(entry, 0, 1)>>
    ELSE <<>>

\* the switch of writeLog on the type of config.Output
handleWriter(results, len, entry) ==
    IF OutputIsMultiWriter
    THEN handleMultiWriter(results, len, entry)
    ELSE handleSingleWriter(results[1], len, entry)

\* mutant: the write returns with the mutex still held
writeLogWriteNoUnlock(a, t, entry, results) ==
    /\ adapters[a].mu = t
    /\ sink' = Append(sink, entry)
    /\ stderr' = stderr \o handleWriter(results, contentsLen, entry)
    /\ UNCHANGED <<adapters, heap>>

\* mutant: an entry whose write had an issue is written a second time
writeLogWriteRetry(a, t, entry, results) ==
    /\ adapters[a].mu = t
    /\ sink' = IF handleWriter(results, contentsLen, entry) # <<>>
               THEN sink \o <<entry, entry>>
               ELSE Append(sink, entry)
    /\ stderr' = stderr \o handleWriter(results, contentsLen, entry)
    /\ adapters' = [adapters EXCEPT ![a].mu = "free"]
    /\ UNCHANGED heap

\* the entry is handed to the writers once, whatever they return
writeLogWrite(a, t, entry, results) ==
    /\ adapters[a].mu = t
    /\ sink' = Append(sink, entry)
    /\ stderr' = stderr \o handleWriter(results, contentsLen, entry)
    /\ adapters' = [adapters EXCEPT ![a].mu = "free"]
    /\ UNCHANGED heap

logFallbackLock(p) ==
    /\ Alive
    /\ ppc[p] = "fallback"
    /\ writeLogLock(pcur[p].ad, p)
    /\ ppc' = [ppc EXCEPT ![p] = "writing"]
    /\ UNCHANGED <<buffer, bufClosed, doneClosed, wpc, wcur, pcur, calls, sink,
                   spc, syncCount, syncRet, panicked, atSync>>
    /\ UNCHANGED notLog

logFallbackWrite(p, results) ==
    /\ Alive
    /\ ppc[p] = "writing"
    /\ writeLogWrite(pcur[p].ad, p, pcur[p].id, results)
    /\ calls' = [calls EXCEPT ![pcur[p].id].ret = IF SyncStarted THEN "post" ELSE "pre",
                             ![pcur[p].id].res = WriteClass(results)]
    /\ ppc' = [ppc EXCEPT ![p] = "idle"]
    /\ pcur' = [pcur EXCEPT ![p] = NoCall]
    /\ UNCHANGED <<buffer, bufClosed, doneClosed, wpc, wcur, spc, syncCount,
                   syncRet, panicked, atSync>>
    /\ UNCHANGED notLog

(***************************************************************************)
(* adapter.processLogs: the background worker started by NewAdapter on the *)
(* root adapter; its writeLog takes the root's mu.                         *)
(***************************************************************************)
\* mutant: the worker receives the entry that was sent last
processLogsRecvLast ==
    /\ Alive
    /\ wpc = "select"
    /\ buffer # <<>>
    /\ wcur' = buffer[Len(buffer)]
    /\ buffer' = SubSeq(buffer, 1, Len(buffer) - 1)
    /\ wpc' = "recvd"
    /\ UNCHANGED <<adapters, heap, stderr, bufClosed, doneClosed, ppc, pcur, calls, sink,
                   spc, syncCount, syncRet, panicked, atSync>>
    /\ UNCHANGED notLog

\* outer select, case entry, ok := <-a.buffer with ok
processLogsRecv ==
    /\ Alive
    /\ wpc = "select"
    /\ buffer # <<>>
    /\ wcur' = Head(buffer)
    /\ buffer' = Tail(buffer)
    /\ wpc' = "recvd"
    /\ UNCHANGED <<adapters, heap, stderr, bufClosed, doneClosed, ppc, pcur, calls, sink,
                   spc, syncCount, syncRet, panicked, atSync>>
    /\ UNCHANGED notLog

\* mutant: the worker returns as soon as it finds the queue empty
processLogsClosedOrEmpty ==
    /\ Alive
    /\ wpc = "select"
    /\ buffer = <<>>
    /\ wpc' = "exitedClosed"
    /\ UNCHANGED <<adapters, heap, stderr, buffer, bufClosed, doneClosed, wcur, ppc, pcur,
                   calls, sink, spc, syncCount, syncRet, panicked, atSync>>
    /\ UNCHANGED notLog

\* outer select, case entry, ok := <-a.buffer with !ok: return
processLogsClosed ==
    /\ Alive
    /\ wpc = "select"
    /\ buffer = <<>>
    /\ bufClosed
    /\ wpc' = "exitedClosed"
    /\ UNCHANGED <<adapters, heap, stderr, buffer, bufClosed, doneClosed, wcur, ppc, pcur,
                   calls, sink, spc, syncCount, syncRet, panicked, atSync>>
    /\ UNCHANGED notLog

\* outer select, case <-a.done: enter the drain loop
processLogsDone ==
    /\ Alive
    /\ wpc = "select"
    /\ doneClosed
    /\ wpc' = "drain"
    /\ UNCHANGED <<adapters, heap, stderr, buffer, bufClosed, doneClosed, wcur, ppc, pcur,
                   calls, sink, spc, syncCount, syncRet, panicked, atSync>>
    /\ UNCHANGED notLog

\* mutant: on the done signal the worker returns without draining
processLogsDrainSkipped ==
    /\ Alive
    /\ wpc = "drain"
    /\ wpc' = "exitedDrain"
    /\ UNCHANGED <<adapters, heap, stderr, buffer, bufClosed, doneClosed, wcur, ppc, pcur,
                   calls, sink, spc, syncCount, syncRet, panicked, atSync>>
    /\ UNCHANGED notLog

\* drain loop: receive an entry, or return on !ok and on default
processLogsDrain ==
    /\ Alive
    /\ wpc = "drain"
    /\ IF buffer # <<>>
       THEN /\ wcur' = Head(buffer)
            /\ buffer' = Tail(buffer)
            /\ wpc' = "drecvd"
       ELSE /\ wpc' = "exitedDrain"
            /\ UNCHANGED <<wcur, buffer>>
    /\ UNCHANGED <<adapters, heap, stderr, bufClosed, doneClosed, ppc, pcur, calls, sink,
                   spc, syncCount, syncRet, panicked, atSync>>
    /\ UNCHANGED notLog

processLogsLock ==
    /\ Alive
    /\ wpc \in {"recvd", "drecvd"}
    /\ writeLogLock(1, "worker")
    /\ wpc' = IF wpc = "recvd" THEN "writing" ELSE "dwriting"
    /\ UNCHANGED <<buffer, bufClosed, doneClosed, wcur, ppc, pcur, calls, sink,
                   spc, syncCount, syncRet, panicked, atSync>>
    /\ UNCHANGED notLog

processLogsWrite(results) ==
    /\ Alive
    /\ wpc \in {"writing", "dwriting"}
    /\ writeLogWrite(1, "worker", wcur, results)
    /\ calls' = [calls EXCEPT ![wcur].res = WriteClass(results)]
    /\ wcur' = 0
    /\ wpc' = IF wpc = "writing" THEN "select" ELSE "drain"
    /\ UNCHANGED <<buffer, bufClosed, doneClosed, ppc, pcur, spc,
                   syncCount, syncRet, panicked, atSync>>
    /\ UNCHANGED notLog

(***************************************************************************)
(* adapter.WithFields, under a.mu: the derived adapter copies the config   *)
(* and shares buffer, done and wg.  adapter.SetLevel, under a.mu, sets the *)
(* level of the receiver's own config.                                     *)
(***************************************************************************)
WithFields(a, fields) ==
    /\ Alive
    /\ adapters[a].mu = "free"
    /\ LET d == deriveFields(heap, adapters[a].fields, fields)
       IN  /\ heap' = d.heap
           /\ adapters' = Append(adapters,
                            [level |-> adapters[a].level,
                             fields |-> d.slice,
                             mu |-> "free"])
    /\ UNCHANGED <<stderr, buffer, bufClosed, doneClosed, wpc, wcur, ppc, pcur, calls,
                   sink, spc, syncCount, syncRet, panicked, atSync>>
    /\ UNCHANGED notLog

SetLevel(a, level) ==
    /\ Alive
    /\ adapters[a].mu = "free"
    /\ adapters[a].level # level
    /\ adapters' = [adapters EXCEPT ![a].level = level]
    /\ UNCHANGED <<heap, stderr, buffer, bufClosed, doneClosed, wpc, wcur, ppc, pcur, calls,
                   sink, spc, syncCount, syncRet, panicked, atSync>>
    /\ UNCHANGED notLog

(***************************************************************************)
(* adapter.Sync: close(a.done), close(a.buffer), a.wg.Wait(), then the     *)
(* Sync of config.Output.  done, buffer and wg are shared by the family.   *)
(***************************************************************************)
\* close of a closed channel panics
SyncCloseDone(a) ==
    /\ Alive
    /\ spc = "idle"
    /\ syncCount < MaxSyncs
    /\ IF doneClosed
       THEN /\ panicked' = "close of closed channel"
            /\ UNCHANGED <<doneClosed, spc, atSync>>
       ELSE /\ doneClosed' = TRUE
            /\ spc' = "closeBuffer"
            /\ atSync' = buffer
            /\ UNCHANGED panicked
    /\ UNCHANGED <<adapters, heap, stderr, buffer, bufClosed, wpc, wcur, ppc, pcur, calls,
                   sink, syncCount, syncRet>>
    /\ UNCHANGED notLog

SyncCloseBuffer ==
    /\ Alive
    /\ spc = "closeBuffer"
    /\ IF bufClosed
       THEN /\ panicked' = "close of closed channel"
            /\ UNCHANGED <<bufClosed, spc>>
       ELSE /\ bufClosed' = TRUE
            /\ spc' = "wait"
            /\ UNCHANGED panicked
    /\ UNCHANGED <<adapters, heap, stderr, buffer, doneClosed, wpc, wcur, ppc, pcur, calls,
                   sink, syncCount, syncRet, atSync>>
    /\ UNCHANGED notLog

\* mutant: Sync goes on to the sink's Sync without waiting for the worker
SyncWaitNoJoin ==
    /\ Alive
    /\ spc = "wait"
    /\ spc' = "sinkSync"
    /\ UNCHANGED <<adapters, heap, stderr, buffer, bufClosed, doneClosed, wpc, wcur, ppc,
                   pcur, calls, sink, syncCount, syncRet, panicked, atSync>>
    /\ UNCHANGED notLog

\* a.wg.Wait() returns once processLogs has run its deferred wg.Done()
SyncWait ==
    /\ Alive
    /\ spc = "wait"
    /\ WorkerExited
    /\ spc' = "sinkSync"
    /\ UNCHANGED <<adapters, heap, stderr, buffer, bufClosed, doneClosed, wpc, wcur, ppc,
                   pcur, calls, sink, syncCount, syncRet, panicked, atSync>>
    /\ UNCHANGED notLog

\* return syncer.Sync(): nil or the sink's error
SyncSink(ok) ==
    /\ Alive
    /\ spc = "sinkSync"
    /\ syncRet' = IF ok THEN "nil" ELSE "err"
    /\ syncCount' = syncCount + 1
    /\ spc' = "idle"
    /\ UNCHANGED <<adapters, heap, stderr, buffer, bufClosed, doneClosed, wpc, wcur, ppc,
                   pcur, calls, sink, panicked, atSync>>
    /\ UNCHANGED notLog

NextLog ==
    \/ \E p \in Producers, a \in 1..Len(adapters), level \in Levels : log(p, a, level)
    \/ \E p \in Producers : logSend(p)
    \/ \E p \in Producers : logTimeout(p)
    \/ \E p \in Producers : logFallbackLock(p)
    \/ \E p \in Producers : logFallbackWrite(p, Complete)
    \/ processLogsRecv
    \/ processLogsClosed
    \/ processLogsDone
    \/ processLogsDrain
    \/ processLogsLock
    \/ processLogsWrite(Complete)
    \/ \E a \in 1..Len(adapters), f \in FieldArgs :
           Len(adapters) < MaxAdapters /\ WithFields(a, f)
    \/ \E a \in 1..Len(adapters) : SyncCloseDone(a)
    \/ SyncCloseBuffer
    \/ SyncWait
    \/ \E ok \in BOOLEAN : SyncSink(ok)

\* the adapter family in use, shutdown included
SpecLog == InitLog /\ [][NextLog]_vars

\* one goroutine logging through the loggers of a running family whose
\* levels are changed by SetLevel
\* number of log calls made beside SetLevel and WithFields
MaxLevelCalls == 2

NextLevel ==
    \/ \E a \in 1..Len(adapters), level \in Levels :
           Len(calls) < MaxLevelCalls /\ log("p1", a, level)
    \/ logSend("p1")
    \/ logTimeout("p1")
    \/ logFallbackLock("p1")
    \/ logFallbackWrite("p1", Complete)
    \/ processLogsRecv
    \/ processLogsLock
    \/ processLogsWrite(Complete)
    \/ \E a \in 1..Len(adapters), f \in FieldArgs :
           Len(adapters) < MaxAdapters /\ WithFields(a, f)
    \/ \E a \in 1..Len(adapters), level \in Levels : SetLevel(a, level)

SpecLevel == InitLog /\ [][NextLevel]_vars

(***************************************************************************)
(* Properties of the adapter (SpecLog)                                     *)
(***************************************************************************)
\* nothing of the family is in flight: no producer inside log, the queue is
\* empty and the worker holds no entry
Quiescent ==
    /\ \A p \in Producers : ppc[p] = "idle"
    /\ buffer = <<>>
    /\ wcur = 0

InQueue(c) == \E i \in 1..Len(buffer) : buffer[i] = c

\* C1 (step): a log call at level M on a logger whose minimum level is L is
\* dropped if and only if M < L; a dropped call enqueues nothing, writes
\* nothing and returns at once (M = L is logged).
C1_Step ==
    Len(calls') > Len(calls) =>
    \A p \in Producers, a \in 1..Len(adapters), M \in Levels :
        log(p, a, M) =>
            LET c == Len(calls') IN
            /\ (M >= adapters[a].level) <=> (calls'[c].how # "filtered")
            /\ (M < adapters[a].level) =>
                   /\ buffer' = buffer
                   /\ sink' = sink
                   /\ ppc' = ppc

\* C1 (state, required of the state every step leads to): a dropped call
\* never reaches the queue, the worker or the
\* sink; an accepted call that returned before Sync was invoked is on the
\* sink once the family is quiescent.
C1_State ==
    \A c \in CallIds :
        /\ calls[c].how = "filtered" =>
               /\ Count(c, sink) = 0
               /\ ~InQueue(c)
               /\ wcur # c
        /\ (Quiescent /\ Accepted(c) /\ calls[c].ret = "pre") => Count(c, sink) = 1

\* C1: level filtering: for every minimum level L and every message level M
\* a log call produces an entry on the sink if and only if M >= L.
C1_LevelFiltering == [][C1_Step /\ C1_State']_vars

\* C1 witness: a root logger at Warn and a derived logger at Debug; one
\* call was dropped and one call was accepted and written.
C1_Witness ==
    /\ Len(adapters) = 2
    /\ adapters[1].level = WarnLevel
    /\ adapters[2].level = DebugLevel
    /\ Quiescent
    /\ \E c, d \in CallIds :
        /\ calls[c].how = "filtered" /\ Count(c, sink) = 0
        /\ Accepted(d) /\ Count(d, sink) = 1

\* C2: no data loss under backpressure: every accepted log call is written
\* at most once at any time, and every accepted call that returned before
\* Sync was invoked has been written exactly once when the family is
\* quiescent or Sync has returned (by the worker, or by the caller on the
\* timeout fallback).
C2_NoLossNoDup ==
    \A c \in CallIds :
        /\ Count(c, sink) <= 1
        /\ (Accepted(c) /\ calls[c].ret = "pre" /\ (Quiescent \/ syncCount >= 1))
               => Count(c, sink) = 1

\* C2 witness: the queue was full: one call went through the queue, another
\* one took the timeout fallback, both were made before Sync, Sync returned
\* and each is on the sink once.
C2_Witness ==
    /\ syncCount >= 1
    /\ \E c, d \in CallIds :
        /\ calls[c].how = "queue" /\ calls[c].ret = "pre" /\ Count(c, sink) = 1
        /\ calls[d].how = "direct" /\ calls[d].ret = "pre" /\ Count(d, sink) = 1

\* C3: shutdown drains the queue: once the worker has returned (and so when
\* Sync returns), every entry enqueued before Sync was invoked is on the
\* sink, whichever branch of its select the worker took.
C3_SyncDrains ==
    (WorkerExited \/ syncCount >= 1) =>
        \A c \in CallIds :
            (calls[c].how = "queue" /\ calls[c].ret = "pre") => Count(c, sink) = 1

\* C3 witness: an entry was still queued when Sync was invoked, the worker
\* left through the done branch and its drain loop, Sync returned and the
\* entry is on the sink.
C3_Witness ==
    /\ syncCount >= 1
    /\ wpc = "exitedDrain"
    /\ Len(atSync) >= 1
    /\ \A i \in 1..Len(atSync) : Count(atSync[i], sink) = 1

\* C3 second witness: the same through the queue-receive branch.
C3_WitnessClosed ==
    /\ syncCount >= 1
    /\ wpc = "exitedClosed"
    /\ Len(atSync) >= 1
    /\ \A i \in 1..Len(atSync) : Count(atSync[i], sink) = 1

\* C4: a second sequential Sync (on the same logger or on another logger of
\* the family) does not panic.
C4_SecondSyncNoPanic == panicked # "close of closed channel"

(***************************************************************************)
(* MultiWriter (package output)                                            *)
(***************************************************************************)
\* the argument lists of NewMultiWriter: writers and nils
RECURSIVE SeqsUpTo(_, _)
SeqsUpTo(S, n) ==
    IF n = 0 THEN {<<>>}
    ELSE LET shorter == SeqsUpTo(S, n - 1)
         IN  shorter \cup {Append(q, x) : q \in shorter, x \in S}

NewArgs == SeqsUpTo(WriterIds \cup {Nil}, MaxNew)

\* NewMultiWriter: validWriters keeps the non-nil arguments in order
validWriters(ws) == SelectSeq(ws, LAMBDA w : w # Nil)

\* NewMultiWriter: writerNames[w] = fmt.Sprintf("%T[%d]", w, i), i the
\* 0-based index among the arguments; a later index overwrites an earlier
writerNamesOf(ws) ==
    [w \in WriterIds |->
        IF \E i \in 1..Len(ws) : ws[i] = w
        THEN LET last == CHOOSE i \in 1..Len(ws) :
                            /\ ws[i] = w
                            /\ \A j \in 1..Len(ws) : ws[j] = w => j <= i
             IN  <<WriterType(w), last - 1>>
        ELSE NoName]

\* NewMultiWriter returns an error for an empty list and for a list of nils
NewMultiWriterOK(ws) == Len(ws) > 0 /\ Len(validWriters(ws)) > 0

NewMultiWriter(ws) ==
    /\ NewMultiWriterOK(ws)
    /\ mwWriters = validWriters(ws)
    /\ mwNames = writerNamesOf(ws)
    /\ mwCap = Len(ws)

InitMW ==
    /\ IdleApp
    /\ \E ws \in NewArgs : NewMultiWriter(ws)
    /\ mwLast = NoWrite
    /\ NoIteration
    /\ IdleLog
    /\ IdleCW
    /\ IdleFW

\* append of one element to a slice of capacity cap that then has len
\* elements: in place when the capacity suffices, else into a new array of
\* twice the capacity (of one element for a nil slice)
growslice(cap, len) ==
    IF len <= cap THEN cap ELSE IF cap = 0 THEN 1 ELSE 2 * cap

\* AddWriter: a nil writer is refused, any other is appended to mw.Writers
AddWriter(w) ==
    /\ mwLast = NoWrite
    /\ Len(mwWriters) < MaxWriters
    /\ IF w = Nil
       THEN UNCHANGED <<mwWriters, mwCap>>
       ELSE /\ mwWriters' = Append(mwWriters, w)
            /\ mwCap' = growslice(mwCap, Len(mwWriters) + 1)
    /\ UNCHANGED <<mwNames, mwLast>>
    /\ UNCHANGED notMW

\* RemoveWriter: the first occurrence is replaced by the last element and
\* the slice is truncated
RemoveWriter(w) ==
    /\ mwLast = NoWrite
    /\ IF w # Nil /\ \E i \in 1..Len(mwWriters) : mwWriters[i] = w
       THEN LET i == CHOOSE k \in 1..Len(mwWriters) :
                         /\ mwWriters[k] = w
                         /\ \A j \in 1..(k - 1) : mwWriters[j] # w
                lastIdx == Len(mwWriters)
            IN  mwWriters' = SubSeq([mwWriters EXCEPT ![i] = mwWriters[lastIdx]],
                                    1, lastIdx - 1)
       ELSE UNCHANGED mwWriters
    /\ UNCHANGED <<mwCap, mwNames, mwLast>>
    /\ UNCHANGED notMW

\* mutant: the loop stops after the first writer that returns an error
RECURSIVE performWritesShortCircuit(_, _, _, _)
performWritesShortCircuit(writers, names, out, i) ==
    IF i > Len(writers) THEN <<>>
    ELSE IF writers[i] = Nil THEN performWritesShortCircuit(writers, names, out, i + 1)
    ELSE LET result == [writer |-> writers[i], name |-> names[writers[i]],
                        bytes |-> out[i].n, err |-> out[i].err]
         IN  IF result.err THEN <<result>>
             ELSE <<result>> \o performWritesShortCircuit(writers, names, out, i + 1)

\* performWrites: one WriteResult per non-nil writer, in list order, from
\* position i on; out[i] is what writer i's Write returns
RECURSIVE performWrites(_, _, _, _)
performWrites(writers, names, out, i) ==
    IF i > Len(writers) THEN <<>>
    ELSE IF writers[i] = Nil THEN performWrites(writers, names, out, i + 1)
    ELSE LET result == [writer |-> writers[i], name |-> names[writers[i]],
                        bytes |-> out[i].n, err |-> out[i].err]
         IN  <<result>> \o performWrites(writers, names, out, i + 1)

\* mutant: a result counts as a success whenever it carries no error
resultSucceededNoErr(result, expectedBytes) == ~result.err

\* processResults: result.Err == nil && result.Bytes == expectedBytes
resultSucceeded(result, expectedBytes) ==
    ~result.err /\ result.bytes = expectedBytes

\* processResults: the success count and one failure line per other result
RECURSIVE processResults(_, _)
processResults(results, expectedBytes) ==
    IF results = <<>> THEN [successCount |-> 0, failures |-> <<>>]
    ELSE LET rest == processResults(Tail(results), expectedBytes)
             result == Head(results)
         IN  IF resultSucceeded(result, expectedBytes)
             THEN [rest EXCEPT !.successCount = @ + 1]
             ELSE [rest EXCEPT !.failures =
                      <<[name |-> result.name, bytes |-> result.bytes,
                         expected |-> expectedBytes,
                         reason |-> IF result.err THEN "error" ELSE "incomplete write"]>>
                      \o @]

\* createErrorReport
createErrorReport(results, successCount, failures) ==
    [total |-> Len(results), successful |-> successCount,
     failed |-> Len(failures), failures |-> failures]

\* writeToWriters: (expectedBytes, report) when a failure exists, else
\* (expectedBytes, nil)
writeToWriters(writers, names, len, out) ==
    LET results == performWrites(writers, names, out, 1)
        pr == processResults(results, len)
    IN  [len |-> len,
         results |-> results,
         n |-> len,
         err |-> IF Len(pr.failures) > 0
                 THEN <<createErrorReport(results, pr.successCount, pr.failures)>>
                 ELSE NilErr]

\* MultiWriter.Write under mw.mu.RLock
MultiWriterWrite(len, out) ==
    /\ mwLast = NoWrite
    /\ mwLast' = writeToWriters(mwWriters, mwNames, len, out)
    /\ UNCHANGED <<mwWriters, mwCap, mwNames>>
    /\ UNCHANGED notMW

\* the caller takes the return values of Write
MultiWriterReturn ==
    /\ mwLast # NoWrite
    /\ mwLast' = NoWrite
    /\ UNCHANGED <<mwWriters, mwCap, mwNames>>
    /\ UNCHANGED notMW

NextMW ==
    \/ \E w \in WriterIds \cup {Nil} : AddWriter(w)
    \/ \E w \in WriterIds \cup {Nil} : RemoveWriter(w)
    \/ \E len \in 0..MaxPayload :
         \E out \in [1..Len(mwWriters) -> Outcomes(len)] : MultiWriterWrite(len, out)
    \/ MultiWriterReturn

SpecMW == InitMW /\ [][NextMW]_vars

(***************************************************************************)
(* Properties of MultiWriter.Write (SpecMW)                                *)
(***************************************************************************)
WriteReturning == mwLast # NoWrite

\* C6: MultiWriter.Write has no short-circuit: one Write call invokes Write
\* on every registered writer exactly once, in list order, whatever the
\* writers before it returned.
C6_NoShortCircuit ==
    WriteReturning =>
        /\ Len(mwLast.results) = Len(mwWriters)
        /\ \A i \in 1..Len(mwWriters) : mwLast.results[i].writer = mwWriters[i]

\* C6 witness: three registered writers, the second returned an error, the
\* first and the third were invoked and succeeded.
C6_Witness ==
    /\ WriteReturning
    /\ Len(mwWriters) = 3
    /\ Len(mwLast.results) = 3
    /\ mwLast.results[2].err
    /\ ~mwLast.results[1].err /\ mwLast.results[1].bytes = mwLast.len
    /\ ~mwLast.results[3].err /\ mwLast.results[3].bytes = mwLast.len

\* C7: Write returns a nil error if and only if every writer returned no
\* error and wrote len(payload) bytes; the byte count it returns is
\* len(payload) in every case.
C7_WriteReturn ==
    WriteReturning =>
        /\ (mwLast.err = NilErr) <=>
               \A i \in 1..Len(mwLast.results) :
                   /\ ~mwLast.results[i].err
                   /\ mwLast.results[i].bytes = mwLast.len
        /\ mwLast.n = mwLast.len

\* C7 witness: no writer returned an error, one wrote fewer bytes than the
\* payload has; Write returned a non-nil error and the full byte count.
C7_Witness ==
    /\ WriteReturning
    /\ mwLast.len = 1
    /\ Len(mwLast.results) >= 2
    /\ \A i \in 1..Len(mwLast.results) : ~mwLast.results[i].err
    /\ \E i \in 1..Len(mwLast.results) : mwLast.results[i].bytes < mwLast.len
    /\ mwLast.err # NilErr
    /\ mwLast.n = mwLast.len

\* the results of the failing and incomplete writers, in order
FailedResults(results, len) ==
    SelectSeq(results, LAMBDA r : r.err \/ r.bytes # len)

\* C8: the aggregated error of a failing Write has one entry per failing or
\* incomplete writer, none for a successful writer, and each entry carries
\* the name of its writer (non-empty, of the writer's type), for writers
\* passed to NewMultiWriter and for writers registered through AddWriter.
C8_FailuresNamed ==
    (WriteReturning /\ mwLast.err # NilErr) =>
        LET failures == mwLast.err[1].failures
            failed == FailedResults(mwLast.results, mwLast.len)
        IN  /\ Len(failures) = Len(failed)
            /\ \A j \in 1..Len(failed) :
                   /\ failures[j].name # NoName
                   /\ failures[j].name[1] = WriterType(failed[j].writer)

(***************************************************************************)
(* FileWriter (package output)                                             *)
(***************************************************************************)
\* n bytes written by Write call id
Bytes(id, n) == [i \in 1..n |-> id]

\* NewFileWriter on a directory whose log file holds initSize bytes (the
\* file is created when absent): the handle is open, size = info.Size()
NewFileWriter(maxSize, compress, initSize) ==
    /\ fwFile = "open"
    /\ fwSize = initSize
    /\ fwMaxSize = maxSize
    /\ fwCompress = compress
    /\ files = [f \in FileNames |->
                   IF f = Active THEN Bytes(0, initSize) ELSE NoFile]
    /\ now = 0
    /\ fwTasks = <<>>
    /\ gzFiles = [t \in 0..MaxClock |-> NoGz]
    /\ fwCalls = <<>>
    /\ fwRotations = 0
    /\ fwFaults = 0

\* the I/O errors of one Write call: of w.file.Close, os.Rename and
\* os.OpenFile in rotate, and of w.file.Write
WriteFaults == {"none", "close", "rename", "open", "write"}

needsRotationAtLimit(size, len, maxSize) == size + len >= maxSize

\* the rotation check of Write
needsRotation(size, len, maxSize) == size + len > maxSize

\* the state that rotate works on and leaves behind
RotateState(file, dir, size, tasks, renamed, err) ==
    [file |-> file, dir |-> dir, size |-> size, tasks |-> tasks,
     renamed |-> renamed, err |-> err]

\* compressFile called without `go`: rotate returns when the task has ended
NewTaskJoined(t, content) ==
    [at |-> t, pc |-> "done", src |-> content, ino |-> 0, fail |-> "none",
     want |-> content]

\* the goroutine started by `go w.compressFile(backupPath)` for the backup
\* of second t: its position in performCompression, the content of the
\* source it opened, the inode of the ".gz" file it opened (0: none), the
\* step that failed; want is the content the backup had when it was made
NewTask(t, content) ==
    [at |-> t, pc |-> "start", src |-> NoFile, ino |-> 0, fail |-> "none",
     want |-> content]

\* rotate with a failed rename that leaves the old handle in use
rotateKeepsHandle(file, dir, size, tasks, compress, t, fault) ==
    IF file # "open"
    THEN RotateState(file, dir, size, tasks, FALSE, TRUE)
    ELSE IF fault = "close"
    THEN RotateState("closedHandle", dir, size, tasks, FALSE, TRUE)
    ELSE IF fault = "rename"
    THEN RotateState("open", dir, size, tasks, FALSE, TRUE)
    ELSE LET moved == [dir EXCEPT ![Backup(t)] = dir[Active],
                                  ![Active] = NoFile]
             spawned == IF compress
                        THEN Append(tasks, NewTask(t, dir[Active]))
                        ELSE tasks
         IN  IF fault = "open"
             THEN RotateState("closedHandle", moved, size, spawned, TRUE, TRUE)
             ELSE RotateState("open", [moved EXCEPT ![Active] = <<>>], 0,
                              spawned, TRUE, FALSE)

\* rotate at second t: close the handle, rename the log file to its backup
\* name (os.Rename replaces a file that has this name), start the compression
\* of the backup if enabled, open a new log file, reset the size
rotate(file, dir, size, tasks, compress, t, fault) ==
    IF file # "open"
    THEN RotateState(file, dir, size, tasks, FALSE, TRUE)
    ELSE IF fault = "close"
    THEN RotateState("closedHandle", dir, size, tasks, FALSE, TRUE)
    ELSE IF fault = "rename"
    THEN RotateState("closedHandle", dir, size, tasks, FALSE, TRUE)
    ELSE LET moved == [dir EXCEPT ![Backup(t)] = dir[Active],
                                  ![Active] = NoFile]
             spawned == IF compress
                        THEN Append(tasks, NewTask(t, dir[Active]))
                        ELSE tasks
         IN  IF fault = "open"
             THEN RotateState("closedHandle", moved, size, spawned, TRUE, TRUE)
             ELSE RotateState("open", [moved EXCEPT ![Active] = <<>>], 0,
                              spawned, TRUE, FALSE)

\* FileWriter.Write of len bytes; a failing w.file.Write has written
\* short < len bytes, and w.size is advanced on success only
FileWriterWrite(len, fault, short) ==
    /\ Len(fwCalls) < MaxWrites
    /\ fault # "none" => fwFaults < MaxFaults
    /\ fault = "write" => short < len
    /\ fault # "write" => short = 0
    /\ LET id == Len(fwCalls) + 1
           must == needsRotation(fwSize, len, fwMaxSize)
           st == IF must
                 THEN rotate(fwFile, files, fwSize, fwTasks, fwCompress, now,
                             fault)
                 ELSE RotateState(fwFile, files, fwSize, fwTasks, FALSE, FALSE)
           used == \/ fault = "write" /\ ~st.err /\ st.file = "open"
                   \/ fault \in {"close", "rename", "open"} /\ must
                          /\ fwFile = "open"
           call == [len |-> len, n |-> 0, err |-> TRUE, rotated |-> st.renamed,
                    fault |-> used, step |-> IF used THEN fault ELSE "none"]
       IN  /\ fault # "none" => used
           /\ Len(st.tasks) <= MaxTasks
           /\ fwFile' = st.file
           /\ fwTasks' = st.tasks
           /\ fwRotations' = fwRotations + (IF st.renamed THEN 1 ELSE 0)
           /\ fwFaults' = fwFaults + (IF used THEN 1 ELSE 0)
           /\ IF st.err \/ st.file # "open"
              THEN \* rotate failed, or w.file.Write on a closed or nil handle
                   /\ files' = st.dir
                   /\ fwSize' = st.size
                   /\ fwCalls' = Append(fwCalls, call)
              ELSE IF fault = "write"
              THEN /\ files' = [st.dir EXCEPT
                                   ![Active] = @ \o Bytes(id, short)]
                   /\ fwSize' = st.size
                   /\ fwCalls' = Append(fwCalls, [call EXCEPT !.n = short])
              ELSE /\ files' = [st.dir EXCEPT ![Active] = @ \o Bytes(id, len)]
                   /\ fwSize' = st.size + len
                   /\ fwCalls' = Append(fwCalls,
                                     [call EXCEPT !.n = len, !.err = FALSE])
    /\ UNCHANGED <<fwMaxSize, fwCompress, now, gzFiles>>
    /\ UNCHANGED notFW

\* a second of wall-clock time passes
Tick ==
    /\ now < MaxClock
    /\ now' = now + 1
    /\ UNCHANGED <<fwFile, fwSize, fwMaxSize, fwCompress, files, fwTasks,
                   gzFiles, fwCalls, fwRotations, fwFaults>>
    /\ UNCHANGED notFW

InitFW ==
    /\ IdleApp
    /\ IdleLog
    /\ IdleMW
    /\ IdleCW
    /\ \E maxSize \in 1..MaxSizeLimit : \E compress \in BOOLEAN :
           \E initSize \in 0..MaxInitSize :
               NewFileWriter(maxSize, compress, initSize)

NextFW ==
    \/ \E len \in 0..MaxData : \E fault \in WriteFaults :
           \E short \in 0..MaxData : FileWriterWrite(len, fault, short)
    \/ Tick

SpecFW == InitFW /\ [][NextFW]_vars

(***************************************************************************)
(* compressFile / performCompression: one goroutine per rotated backup.    *)
(* A ".gz" file is [ino, stream, state]: the inode, the content that the   *)
(* gzip stream encodes, and how much of the stream the file holds:         *)
(* "empty" (0 bytes), "partial", "whole", "corrupt" (overlapping writes of *)
(* different streams).                                                     *)
(***************************************************************************)
\* outcomes of a step: it succeeds, an I/O call returns an error, it panics
CompFaults == {"none", "io", "panic"}

Tasks == 1..Len(fwTasks)

\* gzip.NewReader followed by reading to the end
Gunzip(g) == IF g.state = "whole" THEN g.stream ELSE NoFile

\* the file that task k opened as compressedPath still has that name
Linked(k) ==
    /\ gzFiles[fwTasks[k].at].state # "absent"
    /\ gzFiles[fwTasks[k].at].ino = fwTasks[k].ino

\* copyWithBuffer through the gzip writer, from offset 0 of the file; an
\* empty source makes no Write call
Written(g, src) ==
    IF src = <<>> THEN g
    ELSE IF g.state = "empty" THEN [g EXCEPT !.stream = src, !.state = "partial"]
    ELSE IF g.stream = src /\ g.state # "corrupt" THEN g
    ELSE [g EXCEPT !.state = "corrupt"]

\* gzipWriter.Close: the rest of the stream and the trailer
Flushed(g, src) ==
    IF g.state = "empty" \/ (g.stream = src /\ g.state # "corrupt")
    THEN [g EXCEPT !.stream = src, !.state = "whole"]
    ELSE [g EXCEPT !.state = "corrupt"]

\* task k moves to pc; a failure records the failing step
Moved(k, pc) == [fwTasks EXCEPT ![k].pc = pc]
Failed(k, pc, step, fault) ==
    [fwTasks EXCEPT ![k].pc = IF fault = "panic" THEN "cleanup" ELSE pc,
                    ![k].fail = IF fault = "panic" THEN "panic" ELSE step]

\* what a step of a task leaves alone
TaskFrame ==
    /\ UNCHANGED <<fwFile, fwSize, fwMaxSize, fwCompress, now, fwCalls,
                   fwRotations>>
    /\ UNCHANGED notFW

\* the injected outcome of a step counts against the I/O errors
Injected(fault) ==
    /\ fault # "none" => fwFaults < MaxFaults
    /\ fwFaults' = fwFaults + (IF fault = "none" THEN 0 ELSE 1)

\* source, err := os.Open(path); an error returns at once
performCompressionOpen(k, fault) ==
    /\ fwTasks[k].pc = "start"
    /\ Injected(fault)
    /\ LET path == Backup(fwTasks[k].at)
       IN  IF fault # "none" \/ files[path] = NoFile
           THEN fwTasks' = Failed(k, "failed", "open", fault)
           ELSE fwTasks' = [fwTasks EXCEPT ![k].pc = "opened",
                                           ![k].src = files[path]]
    /\ UNCHANGED <<files, gzFiles>>
    /\ TaskFrame

\* os.OpenFile(compressedPath, O_CREATE|O_WRONLY): a file that has the name
\* is opened as it is; an error returns at once. gzip.NewWriterLevel with
\* gzip.BestCompression returns no error.
performCompressionCreate(k, fault) ==
    /\ fwTasks[k].pc = "opened"
    /\ Injected(fault)
    /\ LET t == fwTasks[k].at
       IN  IF fault # "none"
           THEN /\ fwTasks' = Failed(k, "failed", "create", fault)
                /\ UNCHANGED gzFiles
           ELSE IF gzFiles[t].state = "absent"
           THEN /\ gzFiles' = [gzFiles EXCEPT
                                  ![t] = [ino |-> k, stream |-> <<>>,
                                          state |-> "empty"]]
                /\ fwTasks' = [fwTasks EXCEPT ![k].pc = "created",
                                                ![k].ino = k]
           ELSE /\ fwTasks' = [fwTasks EXCEPT ![k].pc = "created",
                                                ![k].ino = gzFiles[t].ino]
                /\ UNCHANGED gzFiles
    /\ UNCHANGED files
    /\ TaskFrame

\* copyWithBuffer(gzipWriter, source, buffer)
performCompressionCopy(k, fault) ==
    /\ fwTasks[k].pc = "created"
    /\ Injected(fault)
    /\ LET t == fwTasks[k].at
       IN  /\ IF Linked(k) /\ fault # "panic"
              THEN gzFiles' = [gzFiles EXCEPT
                                  ![t] = Written(@, fwTasks[k].src)]
              ELSE UNCHANGED gzFiles
           /\ IF fault # "none"
              THEN fwTasks' = Failed(k, "cleanup", "copy", fault)
              ELSE fwTasks' = Moved(k, "copied")
    /\ UNCHANGED files
    /\ TaskFrame

\* gzipWriter.Close()
performCompressionCloseGzip(k, fault) ==
    /\ fwTasks[k].pc = "copied"
    /\ Injected(fault)
    /\ LET t == fwTasks[k].at
       IN  IF fault # "none"
           THEN /\ fwTasks' = Failed(k, "cleanup", "closeGzip", fault)
                /\ UNCHANGED gzFiles
           ELSE /\ fwTasks' = Moved(k, "flushed")
                /\ IF Linked(k)
                   THEN gzFiles' = [gzFiles EXCEPT
                                       ![t] = Flushed(@, fwTasks[k].src)]
                   ELSE UNCHANGED gzFiles
    /\ UNCHANGED files
    /\ TaskFrame

\* compressed.Sync() and compressed.Close()
performCompressionSyncClose(k, fault) ==
    /\ fwTasks[k].pc = "flushed"
    /\ Injected(fault)
    /\ IF fault # "none"
       THEN fwTasks' = Failed(k, "cleanup", "syncClose", fault)
       ELSE fwTasks' = Moved(k, "closed")
    /\ UNCHANGED <<files, gzFiles>>
    /\ TaskFrame

\* verifyCompressedFile(compressedPath): the name exists, the size is not 0,
\* gzip.NewReader accepts the header
performCompressionVerify(k, fault) ==
    /\ fwTasks[k].pc = "closed"
    /\ Injected(fault)
    /\ IF fault # "none" \/ gzFiles[fwTasks[k].at].state \in {"absent", "empty"}
       THEN fwTasks' = Failed(k, "cleanup", "verify", fault)
       ELSE fwTasks' = Moved(k, "verified")
    /\ UNCHANGED <<files, gzFiles>>
    /\ TaskFrame

\* os.Remove(path)
performCompressionRemove(k, fault) ==
    /\ fwTasks[k].pc = "verified"
    /\ Injected(fault)
    /\ LET path == Backup(fwTasks[k].at)
       IN  IF fault # "none" \/ files[path] = NoFile
           THEN /\ fwTasks' = Failed(k, "cleanup", "remove", fault)
                /\ UNCHANGED files
           ELSE /\ fwTasks' = Moved(k, "done")
                /\ files' = [files EXCEPT ![path] = NoFile]
    /\ UNCHANGED gzFiles
    /\ TaskFrame

\* os.Remove(compressedPath) on the error paths, and cleanupCompression after
\* a recovered panic
performCompressionCleanup(k) ==
    /\ fwTasks[k].pc = "cleanup"
    /\ fwTasks' = Moved(k, "failed")
    /\ gzFiles' = [gzFiles EXCEPT ![fwTasks[k].at] = NoGz]
    /\ UNCHANGED <<files, fwFaults>>
    /\ TaskFrame

\* a FileWriter with compression enabled
InitGZ ==
    /\ IdleApp
    /\ IdleLog
    /\ IdleMW
    /\ IdleCW
    /\ \E maxSize \in 1..MaxSizeLimit : \E initSize \in 0..MaxInitSize :
           NewFileWriter(maxSize, TRUE, initSize)

NextGZ ==
    \/ \E len \in 0..MaxData : FileWriterWrite(len, "none", 0)
    \/ Tick
    \/ \E k \in Tasks : \E fault \in CompFaults : performCompressionOpen(k, fault)
    \/ \E k \in Tasks : \E fault \in CompFaults : performCompressionCreate(k, fault)
    \/ \E k \in Tasks : \E fault \in CompFaults : performCompressionCopy(k, fault)
    \/ \E k \in Tasks : \E fault \in CompFaults : performCompressionCloseGzip(k, fault)
    \/ \E k \in Tasks : \E fault \in CompFaults : performCompressionSyncClose(k, fault)
    \/ \E k \in Tasks : \E fault \in CompFaults : performCompressionVerify(k, fault)
    \/ \E k \in Tasks : \E fault \in CompFaults : performCompressionRemove(k, fault)
    \/ \E k \in Tasks : performCompressionCleanup(k)

SpecGZ == InitGZ /\ [][NextGZ]_vars

(***************************************************************************)
(* Properties of the compression tasks (SpecGZ)                            *)
(***************************************************************************)
\* task k belongs to the backup that bears its name: no later rotation has
\* renamed the log file to the same name
Current(k) == \A j \in Tasks : j > k => fwTasks[j].at # fwTasks[k].at

\* task k has ended
Ended(k) == fwTasks[k].pc \in {"done", "failed"}

\* no task shares its backup name with another task
OneTaskPerBackup ==
    \A j, k \in Tasks : j # k => fwTasks[j].at # fwTasks[k].at

\* C12: in every state, the content of each rotated backup exists as the
\* uncompressed backup file or as a ".gz" file that holds the whole stream of
\* that content (the original is deleted only after the verification).
C12_BackupNeverLost ==
    \A k \in Tasks :
        Current(k) =>
            \/ files[Backup(fwTasks[k].at)] = fwTasks[k].want
            \/ Gunzip(gzFiles[fwTasks[k].at]) = fwTasks[k].want

AllEnded == \A k \in Tasks : Ended(k)

\* C13: once the compression tasks have ended, a task that failed at a step
\* or panicked has left no ".gz" file of its backup and the uncompressed
\* backup intact (a backup that another task of the same name has compressed
\* and removed meanwhile counts as intact), and the process has not crashed.
C13_FailureCleanup ==
    \A k \in Tasks :
        (AllEnded /\ Current(k) /\ fwTasks[k].pc = "failed") =>
            /\ \/ /\ gzFiles[fwTasks[k].at].state = "absent"
                  /\ files[Backup(fwTasks[k].at)] = fwTasks[k].want
               \/ /\ Gunzip(gzFiles[fwTasks[k].at]) = fwTasks[k].want
                  /\ files[Backup(fwTasks[k].at)] = NoFile
            /\ panicked = "none"


\* C14: after the rotations with compression enabled and without I/O
\* failure, once the compression tasks have run to their end, each backup
\* has a ".gz" file that decompresses to the content the log file had before
\* the rotation, and the uncompressed backup no longer exists.
C14_CompressionIntegrity ==
    (AllEnded /\ fwFaults = 0) =>
        \A k \in Tasks :
            Current(k) =>
                /\ Gunzip(gzFiles[fwTasks[k].at]) = fwTasks[k].want
                /\ files[Backup(fwTasks[k].at)] = NoFile

(***************************************************************************)
(* Properties of FileWriter.Write and rotate (SpecFW)                      *)
(***************************************************************************)
NoIOError == \A c \in 1..Len(fwCalls) : ~fwCalls[c].err

\* a step that is a Write call on an open writer without an I/O error
WriteStep ==
    /\ Len(fwCalls') = Len(fwCalls) + 1
    /\ fwFile = "open"
    /\ ~fwCalls'[Len(fwCalls')].fault

\* C9: a Write on an open FileWriter without I/O error rotates if and only if
\* size + len(data) > maxSize at the time of the call; when it rotates there
\* is exactly one rotation, the backup holds exactly the content the log file
\* had before the call, the data are the first and only bytes of the new log
\* file and size = len(data); when it does not rotate the data are appended
\* and size grows by len(data).
C9_Step ==
    WriteStep =>
        LET id == Len(fwCalls')
            c == fwCalls'[id]
            must == fwSize + c.len > fwMaxSize
        IN  /\ ~c.err /\ c.n = c.len
            /\ c.rotated <=> must
            /\ fwRotations' = fwRotations + (IF must THEN 1 ELSE 0)
            /\ must =>
                   /\ files'[Backup(now)] = files[Active]
                   /\ files'[Active] = Bytes(id, c.len)
                   /\ fwSize' = c.len
            /\ ~must =>
                   /\ files'[Active] = files[Active] \o Bytes(id, c.len)
                   /\ fwSize' = fwSize + c.len
                   /\ \A t \in 0..MaxClock : files'[Backup(t)] = files[Backup(t)]

C9_RotationThreshold == [][C9_Step]_vars

\* C9 witness: a write that fitted, followed by a write that did not fit and
\* rotated: its data are the content of the new log file, the earlier write
\* is in a backup.
C9_Witness ==
    /\ NoIOError
    /\ Len(fwCalls) >= 2
    /\ LET id == Len(fwCalls)
       IN  /\ fwCalls[id].rotated /\ fwCalls[id].len >= 1
           /\ ~fwCalls[id - 1].rotated /\ fwCalls[id - 1].len >= 1
           /\ files[Active] = Bytes(id, fwCalls[id].len)
           /\ fwSize = fwCalls[id].len
           /\ \E t \in 0..MaxClock :
                  /\ files[Backup(t)] # NoFile
                  /\ Count(id - 1, files[Backup(t)]) = fwCalls[id - 1].len

\* the rename of a rotation has failed in an earlier Write call
RenameFailed == \E c \in 1..Len(fwCalls) : fwCalls[c].step = "rename"

\* C11: the Write whose rotation fails at the rename returns an error and 0
\* bytes, and so does every later Write on this FileWriter; none of these
\* calls renames, creates or changes a file.
C11_Step ==
    (Len(fwCalls') = Len(fwCalls) + 1 /\ RenameFailed') =>
        LET c == fwCalls'[Len(fwCalls')]
        IN  /\ c.err /\ c.n = 0 /\ ~c.rotated
            /\ files' = files
            /\ fwRotations' = fwRotations
            /\ fwFile' # "open"

C11_RotationFailureFatal == [][C11_Step]_vars

\* C11 witness: a rename failed; a later Write that fits into maxSize (no
\* rotation is due) and a later Write that does not fit both returned an
\* error and 0 bytes.
C11_Witness ==
    \E c \in 1..Len(fwCalls) :
        /\ fwCalls[c].step = "rename" /\ fwCalls[c].err /\ fwCalls[c].n = 0
        /\ Len(fwCalls) >= c + 2
        /\ \E d, e \in (c + 1)..Len(fwCalls) :
               /\ fwSize + fwCalls[d].len <= fwMaxSize
               /\ fwSize + fwCalls[e].len > fwMaxSize
               /\ fwCalls[d].err /\ fwCalls[d].n = 0
               /\ fwCalls[e].err /\ fwCalls[e].n = 0

\* C10: with compression disabled and no I/O error, the bytes of every Write
\* call are present, once, in the log file or in exactly one backup: no
\* rotation overwrites or removes an earlier backup, also when two rotations
\* happen within the same second.
C10_ContentPreserved ==
    (~fwCompress /\ NoIOError) =>
        \A id \in 1..Len(fwCalls) :
            \E f \in FileNames :
                /\ files[f] # NoFile
                /\ Count(id, files[f]) = fwCalls[id].len
                /\ \A g \in FileNames \ {f} :
                       files[g] = NoFile \/ Count(id, files[g]) = 0

(***************************************************************************)
(* Close of the writers (package output)                                   *)
(***************************************************************************)
CloseFaults == {"none", "sync", "close"}

\* FileWriter.Close on the handle `file`: the new w.file and the error
FileWriterCloseResult(file, fault) ==
    IF file = "nil"
    THEN [file |-> "nil", err |-> FALSE]                \* already closed
    ELSE IF file = "closedHandle" \/ fault = "sync"
    THEN [file |-> file, err |-> TRUE]                  \* w.file.Sync fails
    ELSE IF fault = "close"
    THEN [file |-> "closedHandle", err |-> TRUE]        \* w.file.Close fails
    ELSE [file |-> "nil", err |-> FALSE]

\* ConsoleWriter.Close: closer.Close() if w.out is an io.Closer; the second
\* Close of an *os.File returns os.ErrClosed
ConsoleWriterCloseResult(out, closed, fault) ==
    IF out = "buffer"
    THEN [closed |-> closed, err |-> FALSE]
    ELSE IF out = "osFile" /\ closed
    THEN [closed |-> TRUE, err |-> TRUE]
    ELSE [closed |-> TRUE, err |-> fault = "close"]

\* the writers' state threaded through the loop of MultiWriter.Close, and
\* the writers the loop has called so far, each with whether it failed
CloseState(file, closed, results) ==
    [file |-> file, closed |-> closed, results |-> results]

\* one call of Sync or Close on writer w by a loop of the MultiWriter
Attempt(w, err) == [w |-> w, err |-> err]

\* len(closeErrors) > 0, len(syncErrors) > 0
AnyFailed(results) == \E k \in 1..Len(results) : results[k].err

\* the I/O errors of one MultiWriter call: one per position of the list
FaultsFor(writers, F) == [1..Len(writers) -> F]

AnyFault(faults) == \E k \in 1..Len(faults) : faults[k] # "none"

\* mutant: the loop returns at the first writer that fails
RECURSIVE closeWritersStopAtError(_, _, _, _)
closeWritersStopAtError(writers, i, st, faults) ==
    IF i > Len(writers) \/ AnyFailed(st.results) THEN st
    ELSE IF writers[i] = Nil
    THEN closeWritersStopAtError(writers, i + 1, st, faults)
    ELSE IF writers[i] = "w2"
    THEN LET r == FileWriterCloseResult(st.file, faults[i])
         IN  closeWritersStopAtError(writers, i + 1,
                 CloseState(r.file, st.closed,
                            Append(st.results, Attempt("w2", r.err))), faults)
    ELSE LET r == ConsoleWriterCloseResult(cwOut, st.closed, faults[i])
         IN  closeWritersStopAtError(writers, i + 1,
                 CloseState(st.file, r.closed,
                            Append(st.results, Attempt("w1", r.err))), faults)

\* the loop of MultiWriter.Close over mw.Writers[i..]
RECURSIVE closeWriters(_, _, _, _)
closeWriters(writers, i, st, faults) ==
    IF i > Len(writers) THEN st
    ELSE IF writers[i] = Nil
    THEN closeWriters(writers, i + 1, st, faults)
    ELSE IF writers[i] = "w2"
    THEN LET r == FileWriterCloseResult(st.file, faults[i])
         IN  closeWriters(writers, i + 1,
                 CloseState(r.file, st.closed,
                            Append(st.results, Attempt("w2", r.err))), faults)
    ELSE LET r == ConsoleWriterCloseResult(cwOut, st.closed, faults[i])
         IN  closeWriters(writers, i + 1,
                 CloseState(st.file, r.closed,
                            Append(st.results, Attempt("w1", r.err))), faults)

\* one record of the history: the call, its return value, whether an I/O
\* error was produced, and for a MultiWriter call the list it ran on and the
\* writers it called
CloseRecord(target, err, fault, writers, results) ==
    [target |-> target, ret |-> IF err THEN "error" ELSE "nil",
     fault |-> fault, writers |-> writers, results |-> results]

FileWriterClose(fault) ==
    /\ Len(closeLog) + Len(syncLog) < MaxCloses
    /\ LET r == FileWriterCloseResult(fwFile, fault)
       IN  /\ fwFile' = r.file
           /\ closeLog' = Append(closeLog,
                  CloseRecord("file", r.err, fault # "none", <<>>, <<>>))
    /\ UNCHANGED <<cwOut, cwOutClosed, mwWriters, mwCap, syncLog>>
    /\ UNCHANGED notClose

ConsoleWriterClose(fault) ==
    /\ Len(closeLog) + Len(syncLog) < MaxCloses
    /\ LET r == ConsoleWriterCloseResult(cwOut, cwOutClosed, fault)
       IN  /\ cwOutClosed' = r.closed
           /\ closeLog' = Append(closeLog,
                  CloseRecord("console", r.err, fault # "none", <<>>, <<>>))
    /\ UNCHANGED <<cwOut, fwFile, mwWriters, mwCap, syncLog>>
    /\ UNCHANGED notClose

MultiWriterClose(faults) ==
    /\ Len(closeLog) + Len(syncLog) < MaxCloses
    /\ LET st == closeWriters(mwWriters, 1,
                              CloseState(fwFile, cwOutClosed, <<>>), faults)
       IN  /\ fwFile' = st.file
           /\ cwOutClosed' = st.closed
           /\ closeLog' = Append(closeLog,
                  CloseRecord("multi", AnyFailed(st.results), AnyFault(faults),
                              mwWriters, st.results))
    /\ mwWriters' = <<>>
    /\ mwCap' = 0
    /\ UNCHANGED <<cwOut, syncLog>>
    /\ UNCHANGED notClose

(***************************************************************************)
(* Sync of the writers (package output)                                    *)
(***************************************************************************)
\* what the Sync of an *os.File can return: nil, an I/O error, and the
\* "inappropriate ioctl for device" of a terminal
SyncFaults == {"none", "sync", "ioctl"}

\* FileWriter.Sync: nil when w.file is nil, else the error of w.file.Sync()
FileWriterSyncResult(file, fault) ==
    IF file = "nil" THEN FALSE
    ELSE file = "closedHandle" \/ fault # "none"

\* ConsoleWriter.Sync: syncer.Sync() if w.out has a Sync method (an *os.File),
\* its error ignored when it is the ioctl error of a terminal
ConsoleWriterSyncResult(out, closed, fault) ==
    IF out # "osFile" THEN FALSE
    ELSE closed \/ fault = "sync"

\* the loop of MultiWriter.Sync over mw.Writers[i..]
RECURSIVE syncWriters(_, _, _, _)
syncWriters(writers, i, results, faults) ==
    IF i > Len(writers) THEN results
    ELSE IF writers[i] = Nil
    THEN syncWriters(writers, i + 1, results, faults)
    ELSE IF writers[i] = "w2"
    THEN syncWriters(writers, i + 1,
             Append(results,
                    Attempt("w2", FileWriterSyncResult(fwFile, faults[i]))),
             faults)
    ELSE syncWriters(writers, i + 1,
             Append(results,
                    Attempt("w1", ConsoleWriterSyncResult(cwOut, cwOutClosed,
                                                          faults[i]))),
             faults)

MultiWriterSync(faults) ==
    /\ Len(closeLog) + Len(syncLog) < MaxCloses
    /\ LET results == syncWriters(mwWriters, 1, <<>>, faults)
       IN  syncLog' = Append(syncLog,
               CloseRecord("multi", AnyFailed(results), AnyFault(faults),
                           mwWriters, results))
    /\ UNCHANGED <<cwOut, cwOutClosed, closeLog, fwFile, mwWriters, mwCap>>
    /\ UNCHANGED notClose

\* NewFileWriter, NewConsoleWriter and NewMultiWriter have returned
InitClose ==
    /\ IdleApp
    /\ IdleLog
    /\ NewFileWriter(MaxSizeLimit, FALSE, 0)
    /\ \E ws \in NewArgs : NewMultiWriter(ws)
    /\ mwLast = NoWrite
    /\ NoIteration
    /\ cwOut \in OutKinds
    /\ cwOutClosed = FALSE
    /\ closeLog = <<>>
    /\ syncLog = <<>>

NextClose ==
    \/ \E fault \in CloseFaults : FileWriterClose(fault)
    \/ \E fault \in CloseFaults : ConsoleWriterClose(fault)
    \/ \E faults \in FaultsFor(mwWriters, CloseFaults) : MultiWriterClose(faults)
    \/ \E faults \in FaultsFor(mwWriters, SyncFaults) : MultiWriterSync(faults)

SpecClose == InitClose /\ [][NextClose]_vars

\* C5: Close called twice in sequence on a FileWriter, on a ConsoleWriter
\* (also one whose output is an io.Closer) or on a MultiWriter returns nil
\* both times, when the file system reports no error.
C5_CloseTwice ==
    (/\ Len(closeLog) >= 2
     /\ closeLog[1].target = closeLog[2].target
     /\ ~closeLog[1].fault /\ ~closeLog[2].fault)
        => (closeLog[1].ret = "nil" /\ closeLog[2].ret = "nil")

\* the writers a MultiWriter call has called, in call order
Attempted(r) == [k \in 1..Len(r.results) |-> r.results[k].w]

\* the call of record r called every non-nil writer of the list, in list
\* order, and returned an error exactly when one of them failed
AllAttempted(r) ==
    /\ Attempted(r) = validWriters(r.writers)
    /\ (r.ret = "error") <=> AnyFailed(r.results)

\* record r: a call on two writers or more whose first writer failed and
\* whose last writer succeeded
FailedThenSucceeded(r) ==
    /\ r.target = "multi"
    /\ Len(r.results) >= 2
    /\ r.results[1].err
    /\ ~r.results[Len(r.results)].err

\* C19: MultiWriter.Sync and MultiWriter.Close call every registered writer,
\* also after a writer failed, and return a non-nil error exactly when a
\* writer failed; once Close has run the writer list is empty, whether or not
\* a writer failed.
C19_SyncCloseAttemptAll ==
    /\ \A k \in 1..Len(syncLog) : AllAttempted(syncLog[k])
    /\ \A k \in 1..Len(closeLog) :
           closeLog[k].target = "multi" =>
               /\ AllAttempted(closeLog[k])
               /\ mwWriters = <<>>

\* a Sync and then a Close whose first writer failed and whose last writer
\* succeeded: both returned an error and the list is empty
C19_Witness ==
    /\ \E k \in 1..Len(syncLog) :
           FailedThenSucceeded(syncLog[k]) /\ syncLog[k].ret = "error"
    /\ \E k \in 1..Len(closeLog) :
           FailedThenSucceeded(closeLog[k]) /\ closeLog[k].ret = "error"
    /\ mwWriters = <<>>

(***************************************************************************)
(* Derivation of loggers: WithFields on the loggers of one family          *)
(***************************************************************************)
\* the fields handed to WithFields: two values under one key, and another key
FieldVals == {<<"k", 1>>, <<"k", 2>>, <<"j", 1>>}
FieldLists == SeqsUpTo(FieldVals, MaxFieldsArg)

InitFields ==
    /\ IdleApp
    /\ NewAdapter(InfoLevel, QueueCap)
    /\ byProducer = FALSE
    /\ NoCalls
    /\ NoFormat
    /\ IdleMW
    /\ IdleCW
    /\ IdleFW

NextFields ==
    \E a \in 1..Len(adapters), f \in FieldLists :
        Len(adapters) < MaxFamily /\ WithFields(a, f)

SpecFields == InitFields /\ [][NextFields]_vars

\* C15: WithFields(fields) on logger a gives a logger whose field list is
\* a's list followed by fields in argument order (duplicate keys kept), and
\* changes the field list of no existing logger: not of the receiver, not of
\* a logger derived earlier from the same receiver.
C15_Step ==
    \A a \in 1..Len(adapters), f \in FieldLists :
        WithFields(a, f) =>
            /\ Len(adapters') = Len(adapters) + 1
            /\ Elems(heap', adapters'[Len(adapters')].fields) = FieldsOf(a) \o f
            /\ \A b \in 1..Len(adapters) :
                   Elems(heap', adapters'[b].fields) = FieldsOf(b)

C15_WithFieldsCopies == [][C15_Step]_vars

\* C15 witness: two loggers derived from the same receiver, whose list is
\* not empty; each holds the receiver's list followed by its own field, of
\* the same key as the receiver's field.
C15_Witness ==
    \E a, b, c \in 1..Len(adapters) :
        /\ a < b /\ b < c
        /\ FieldsOf(a) = <<<<"k", 1>>>>
        /\ FieldsOf(b) = <<<<"k", 1>>, <<"k", 1>>>>
        /\ FieldsOf(c) = <<<<"k", 1>>, <<"k", 2>>>>

\* adapter.GetLevel: a.config.Level of the receiver, under a.mu
GetLevel(a) == adapters[a].level

\* C16: the loggers of a family share one configuration: at all times
\* GetLevel of every derived logger returns the level of the root, whichever
\* of them SetLevel was called on and whenever it was derived.
C16_SharedLevel ==
    \A a \in 1..Len(adapters) : GetLevel(a) = GetLevel(1)

(***************************************************************************)
(* The family before shutdown, with the scheduling the Go runtime gives:   *)
(* time.After(bufferTimeout) fires, a goroutine that can run does run, a   *)
(* write to the sink returns, and a goroutine waiting for a sync.RWMutex   *)
(* that is released again and again gets it (starvation mode).             *)
(***************************************************************************)
LiveLevels == {InfoLevel, WarnLevel}

InitLive ==
    /\ InitLog
    /\ adapters[1].level \in LiveLevels

NextLive ==
    \/ \E p \in Producers, a \in 1..Len(adapters), level \in LiveLevels :
           log(p, a, level)
    \/ \E p \in Producers : logSend(p)
    \/ \E p \in Producers : logTimeout(p)
    \/ \E p \in Producers : logFallbackLock(p)
    \/ \E p \in Producers : logFallbackWrite(p, Complete)
    \/ processLogsRecv
    \/ processLogsLock
    \/ processLogsWrite(Complete)
    \/ \E a \in 1..Len(adapters), f \in FieldArgs :
           Len(adapters) < MaxAdapters /\ WithFields(a, f)
    \/ \E a \in 1..Len(adapters), level \in LiveLevels : SetLevel(a, level)

FairLive ==
    /\ \A p \in Producers :
           /\ WF_vars(logTimeout(p))
           /\ SF_vars(logFallbackLock(p))
           /\ WF_vars(logFallbackWrite(p, Complete))
    /\ WF_vars(processLogsRecv)
    /\ SF_vars(processLogsLock)
    /\ WF_vars(processLogsWrite(Complete))

SpecLive == InitLive /\ [][NextLive]_vars /\ FairLive

\* C17: before shutdown every log call returns: a producer that is inside
\* log (waiting in the select, waiting for the mutex of its fallback write,
\* or writing) is eventually outside it again, whatever the other producer,
\* the worker and the WithFields and SetLevel calls do.
C17_ProducersReturn ==
    \A p \in Producers : (ppc[p] # "idle") ~> (ppc[p] = "idle")

\* both producers are inside log at once, one holding the root's mutex the
\* worker is waiting for, in a family with a derived logger
C17_Witness ==
    /\ Len(adapters) > 1
    /\ wpc = "recvd"
    /\ adapters[1].mu \in Producers
    /\ \A p \in Producers : ppc[p] # "idle"

(***************************************************************************)
(* Order of the writes (SpecFifo): the family with a queue that can hold   *)
(* several entries, the history recording the producer of each call.       *)
(***************************************************************************)
FifoQueueCap == 2

InitFifo == InitFamily(FifoQueueCap, TRUE)

\* the producers, the worker and the shutdown path on the root logger
NextFifo ==
    \/ \E p \in Producers, level \in Levels : log(p, 1, level)
    \/ \E p \in Producers : logSend(p)
    \/ \E p \in Producers : logTimeout(p)
    \/ \E p \in Producers : logFallbackLock(p)
    \/ \E p \in Producers : logFallbackWrite(p, Complete)
    \/ processLogsRecv
    \/ processLogsClosed
    \/ processLogsDone
    \/ processLogsDrain
    \/ processLogsLock
    \/ processLogsWrite(Complete)
    \/ SyncCloseDone(1)
    \/ SyncCloseBuffer
    \/ SyncWait
    \/ \E ok \in BOOLEAN : SyncSink(ok)

SpecFifo == InitFifo /\ [][NextFifo]_vars

\* the entry of call c has been written to the sink, at position k
WrittenAt(c, k) == k \in 1..Len(sink) /\ sink[k] = c

\* calls i and j were made by the same producer and both went through the queue
SameProducerQueued(i, j) ==
    /\ calls[i].by = calls[j].by
    /\ calls[i].how = "queue"
    /\ calls[j].how = "queue"

\* C18: per producer, the entries that went through the queue are written in
\* the order they were enqueued: a producer makes its calls one after the
\* other, so of two of its queued entries the one of the earlier call was
\* enqueued first, and whenever the later one is in the sink the earlier one
\* is in the sink before it.
C18_PerProducerFifo ==
    \A i, j \in CallIds :
        (i < j /\ SameProducerQueued(i, j)) =>
            \A kj \in 1..Len(sink) :
                WrittenAt(j, kj) => \E ki \in 1..(kj - 1) : WrittenAt(i, ki)

\* two queued entries of one producer are in the sink with a queued entry of
\* the other producer written between them
C18_Witness ==
    \E i, j, m \in CallIds :
        /\ i < j
        /\ SameProducerQueued(i, j)
        /\ calls[m].how = "queue"
        /\ calls[m].by # calls[i].by
        /\ \E ki, km, kj \in 1..Len(sink) :
               /\ ki < km /\ km < kj
               /\ WrittenAt(i, ki) /\ WrittenAt(m, km) /\ WrittenAt(j, kj)

(***************************************************************************)
(* Writes that fail (SpecFail): the family before shutdown, its output a   *)
(* single writer or a MultiWriter, every write to a writer returning any   *)
(* count up to the length of the entry, with or without an error.          *)
(***************************************************************************)
\* the MultiWriters the family writes to: of one writer, and of two
FailOutputs == {<<"w1">>, <<"w1", "w2">>}

InitFail ==
    /\ IdleApp
    /\ NewAdapter(InfoLevel, QueueCap)
    /\ byProducer = FALSE
    /\ NoCalls
    /\ NoFormat
    /\ \/ IdleMW
       \/ /\ \E ws \in FailOutputs : NewMultiWriter(ws)
          /\ mwLast = NoWrite
          /\ NoIteration
    /\ IdleCW
    /\ IdleFW

NextFail ==
    \/ \E p \in Producers, level \in Levels : log(p, 1, level)
    \/ \E p \in Producers : logSend(p)
    \/ \E p \in Producers : logTimeout(p)
    \/ \E p \in Producers : logFallbackLock(p)
    \/ \E p \in Producers, results \in WriteResults : logFallbackWrite(p, results)
    \/ processLogsRecv
    \/ processLogsLock
    \/ \E results \in WriteResults : processLogsWrite(results)

SpecFail == InitFail /\ [][NextFail]_vars

\* the entry of call c was reported on os.Stderr
Reported(c) == \E k \in 1..Len(stderr) : stderr[k].entry = c

\* the output was handed the entry of call c, and its write had an issue
WriteFailed(c) == calls[c].res = "issue"

\* C20 (step): a step that hands an entry to the output, whatever the
\* writers return, puts nothing back on the queue and stops no one: after
\* the worker's write the worker is back at its select, after a fallback
\* write its producer has returned, and nothing has panicked.
C20_Step ==
    Len(sink') = Len(sink) + 1 =>
        /\ buffer' = buffer
        /\ panicked' = "none"
        /\ \/ wpc = "writing" /\ wpc' = "select" /\ ppc' = ppc
           \/ /\ wpc' = wpc
              /\ \E p \in Producers :
                     /\ ppc[p] = "writing" /\ ppc'[p] = "idle"
                     /\ \A q \in Producers \ {p} : ppc'[q] = ppc[q]

\* C20 (state, required of the state every step leads to): an entry is
\* reported on os.Stderr, once, exactly when the output was handed it and a
\* writer returned an error or a partial count; no entry is handed to the
\* output twice, failed or not; and once nothing is in flight every accepted
\* call has been handed to the output exactly once, also the calls made
\* after a write failed.
C20_State ==
    /\ \A c \in CallIds :
           /\ Count(c, sink) <= 1
           /\ (Count(c, sink) = 1) <=> (calls[c].res # "none")
           /\ Reported(c) <=> WriteFailed(c)
           /\ (Quiescent /\ Accepted(c)) => Count(c, sink) = 1
    /\ \A k, m \in 1..Len(stderr) : stderr[k].entry = stderr[m].entry => k = m

\* C20: log calls are fire-and-forget: a write error or a partial write is
\* reported on os.Stderr only, the entry is not retried, the worker keeps
\* running and every later entry is still handed to the output exactly once.
C20_FireAndForget == [][C20_Step /\ C20_State']_vars

\* the worker's write of an entry had an issue and was reported; an entry
\* queued after it was written by the worker without an issue; nothing is in
\* flight and the worker is at its select
C20_Witness ==
    /\ Quiescent
    /\ wpc = "select"
    /\ \E c, d \in CallIds :
           /\ c < d
           /\ calls[c].how = "queue" /\ calls[d].how = "queue"
           /\ WriteFailed(c) /\ Reported(c)
           /\ calls[d].res = "complete" /\ ~Reported(d)
           /\ \E kc, kd \in 1..Len(sink) :
                  kc < kd /\ sink[kc] = c /\ sink[kd] = d

(***************************************************************************)
(* Shutdown (SpecLog)                                                      *)
(***************************************************************************)
\* Sync has reached the Sync of the sink, or has returned
SinkSyncStarted == spc = "sinkSync" \/ syncCount >= 1

\* the step is a write to the sink by the worker
WorkerWrites ==
    /\ wpc \in {"writing", "dwriting"}
    /\ Len(sink') = Len(sink) + 1
    /\ sink'[Len(sink')] = wcur

\* C21: shutdown ordering inside Sync: the Sync of the sink starts only when
\* the worker has returned, so no step after that is a write by the worker;
\* and Sync returns what the Sync of the sink returned.
C21_Step ==
    /\ SinkSyncStarted => (WorkerExited /\ ~WorkerWrites)
    /\ SinkSyncStarted' => WorkerExited'
    /\ \A ok \in BOOLEAN :
           SyncSink(ok) => syncRet' = (IF ok THEN "nil" ELSE "err")

C21_SyncAfterWorker == [][C21_Step]_vars

\* Sync was invoked with an entry in the queue, the worker wrote it and
\* returned, and Sync returned the error of the sink's Sync
C21_Witness ==
    /\ syncCount = 1
    /\ syncRet = "err"
    /\ WorkerExited
    /\ atSync # <<>>
    /\ \A i \in 1..Len(atSync) : Count(atSync[i], sink) = 1

\* C22: a log call that runs while Sync runs, or after Sync has closed the
\* queue, is handled: it does not panic, and once Sync has returned the entry
\* of every accepted call that returned has been written, by the worker or
\* by the caller.
C22_LateLogHandled ==
    /\ panicked # "send on closed channel"
    /\ syncCount >= 1 =>
           \A c \in CallIds :
               (Accepted(c) /\ calls[c].ret # "no") => Count(c, sink) = 1

\* the goroutines that are inside the write of writeLog to config.Output
InSinkWrite ==
    {p \in Producers : ppc[p] = "writing"}
        \cup (IF wpc \in {"writing", "dwriting"} THEN {"worker"} ELSE {})

\* C23: sink mutual exclusion: at most one write to the sink is in progress
\* at any time, the writers being the worker and the producers on the
\* fallback path, through the root logger or through a derived logger.
C23_SinkMutualExclusion == Cardinality(InSinkWrite) <= 1

(***************************************************************************)
(* Accesses to the level (SpecRace): SetLevel as its two steps, the        *)
(* a.mu.Lock() and the store of a.config.Level followed by the deferred    *)
(* a.mu.Unlock(); between them the mutex is held by the caller of SetLevel *)
(* and the write of the level is in progress.                              *)
(***************************************************************************)
Setter == "setter"

SetLevelLock(a) ==
    /\ Alive
    /\ adapters[a].mu = "free"
    /\ adapters' = [adapters EXCEPT ![a].mu = Setter]
    /\ UNCHANGED <<heap, stderr, buffer, bufClosed, doneClosed, wpc, wcur, ppc, pcur, calls,
                   sink, spc, syncCount, syncRet, panicked, atSync>>
    /\ UNCHANGED notLog

SetLevelStore(a, level) ==
    /\ Alive
    /\ adapters[a].mu = Setter
    /\ adapters' = [adapters EXCEPT ![a].level = level, ![a].mu = "free"]
    /\ UNCHANGED <<heap, stderr, buffer, bufClosed, doneClosed, wpc, wcur, ppc, pcur, calls,
                   sink, spc, syncCount, syncRet, panicked, atSync>>
    /\ UNCHANGED notLog

InitRace ==
    /\ InitLog
    /\ adapters[1].level \in LiveLevels

NextRace ==
    \/ \E p \in Producers, a \in 1..Len(adapters), level \in LiveLevels :
           log(p, a, level)
    \/ \E p \in Producers : logSend(p)
    \/ \E p \in Producers : logTimeout(p)
    \/ \E p \in Producers : logFallbackLock(p)
    \/ \E p \in Producers : logFallbackWrite(p, Complete)
    \/ processLogsRecv
    \/ processLogsLock
    \/ processLogsWrite(Complete)
    \/ \E a \in 1..Len(adapters), f \in FieldArgs :
           Len(adapters) < MaxAdapters /\ WithFields(a, f)
    \/ \E a \in 1..Len(adapters) : SetLevelLock(a)
    \/ \E a \in 1..Len(adapters), level \in LiveLevels : SetLevelStore(a, level)

SpecRace == InitRace /\ [][NextRace]_vars

\* C24 (step): a log call on logger a reads a.config.Level only while no
\* SetLevel holds a.mu for its write.
C24_Step ==
    \A p \in Producers, a \in 1..Len(adapters), M \in LiveLevels :
        log(p, a, M) => adapters[a].mu # Setter

\* C24: the minimum level is guarded by a reader-writer lock: a log call
\* reads the level under the read lock, so no read of the level by a log
\* call overlaps a write of it by SetLevel.
C24_LevelReadsLocked == [][C24_Step]_vars

\* the number of goroutines of the family that run processLogs: the one
\* started by NewAdapter, until it returns
Workers == IF wpc = "none" \/ WorkerExited THEN 0 ELSE 1

\* C25 (step): deriving a logger starts no worker and stops none.
C25_Step ==
    \A a \in 1..Len(adapters), f \in FieldArgs :
        WithFields(a, f) => (wpc' = wpc /\ Workers' = Workers)

\* C25 (state, required of the state every step leads to): until Sync is
\* invoked one worker runs, however many loggers were derived; once Sync has
\* returned none runs.
C25_State ==
    /\ ~SyncStarted => Workers = 1
    /\ syncCount >= 1 => Workers = 0

\* C25: exactly one background worker per logger family, from NewAdapter
\* until Sync; deriving a logger never starts a worker, and after Sync
\* returns no worker is running.
C25_OneWorker == [][C25_Step /\ C25_State']_vars

\* a family with a derived logger whose worker wrote an entry and whose Sync
\* has returned
C25_Witness ==
    /\ Len(adapters) >= 2
    /\ syncCount = 1
    /\ Workers = 0
    /\ \E c \in CallIds : calls[c].how = "queue" /\ Count(c, sink) = 1

(***************************************************************************)
(* Compression and writes (SpecBG)                                         *)
(***************************************************************************)
\* task k is between its start by rotate and its end
Compressing(k) == ~Ended(k)

\* a step of FileWriter.Write
WriteReturns == Len(fwCalls') = Len(fwCalls) + 1

\* a new log file with compression enabled
InitBG ==
    /\ IdleApp
    /\ IdleLog
    /\ IdleMW
    /\ IdleCW
    /\ \E maxSize \in 1..MaxSizeLimit : NewFileWriter(maxSize, TRUE, 0)

\* writes, rotations within one second and compression tasks whose I/O
\* succeeds
NextBG ==
    \/ \E len \in 1..MaxData : FileWriterWrite(len, "none", 0)
    \/ \E k \in Tasks : performCompressionOpen(k, "none")
    \/ \E k \in Tasks : performCompressionCreate(k, "none")
    \/ \E k \in Tasks : performCompressionCopy(k, "none")
    \/ \E k \in Tasks : performCompressionCloseGzip(k, "none")
    \/ \E k \in Tasks : performCompressionSyncClose(k, "none")
    \/ \E k \in Tasks : performCompressionVerify(k, "none")
    \/ \E k \in Tasks : performCompressionRemove(k, "none")

SpecBG == InitBG /\ [][NextBG]_vars

\* C26: background compression does not block writes. A Write that rotates
\* returns with the compression task it started not yet run, no Write
\* advances or waits for a task that is compressing, and no step of a task
\* touches the handle, the size or the mutex-protected state of the writer.
C26_Step ==
    /\ WriteReturns =>
           /\ \A k \in Tasks : fwTasks'[k] = fwTasks[k]
           /\ Len(fwTasks') \in {Len(fwTasks), Len(fwTasks) + 1}
           /\ Len(fwTasks') > Len(fwTasks) =>
                  fwTasks'[Len(fwTasks')].pc = "start"
    /\ fwTasks' # fwTasks /\ ~WriteReturns =>
           /\ fwFile' = fwFile
           /\ fwSize' = fwSize
           /\ files'[Active] = files[Active]
C26_CompressionDoesNotBlockWrites == [][C26_Step]_vars

\* a Write has rotated and returned, and a later Write has written its
\* bytes, while the compression of the first backup is under way
C26_Witness ==
    /\ Len(fwTasks) >= 1
    /\ fwTasks[1].pc \in {"opened", "created", "copied"}
    /\ \E i, j \in 1..Len(fwCalls) :
           /\ i < j
           /\ fwCalls[i].rotated
           /\ ~fwCalls[j].err
           /\ fwCalls[j].n > 0
           /\ ~fwCalls[j].rotated

(***************************************************************************)
(* formatEntry: the rendering of an entry of logger a, with the timestamp  *)
(* disabled and no caller.  Text output is the sequence of the strings     *)
(* written to the buffer; JSON output is the object that encoder.Encode    *)
(* marshals: the map from key to value.                                    *)
(***************************************************************************)
MaxRendered == 2

\* loggers of the family whose entries are rendered
MaxRenderFamily == 3

\* entry.Message
Message == "msg"

\* Level.String()
LevelString(level) ==
    IF level = TraceLevel THEN "TRACE"
    ELSE IF level = DebugLevel THEN "DEBUG"
    ELSE IF level = InfoLevel THEN "INFO"
    ELSE IF level = WarnLevel THEN "WARN"
    ELSE IF level = ErrorLevel THEN "ERROR"
    ELSE IF level = FatalLevel THEN "FATAL"
    ELSE "UNKNOWN"

\* fmt.Fprintf(buf, "%v", val) of a small integer
Digits == <<"0", "1", "2", "3", "4", "5", "6", "7", "8", "9">>
FormatValue(val) == Digits[val + 1]

\* writeField: key, "=", the formatted value
writeField(field) == <<field[1], "=", FormatValue(field[2])>>

\* the loop over a field list: ", " before every field but the first
RECURSIVE writeFields(_)
writeFields(fields) ==
    IF fields = <<>> THEN <<>>
    ELSE IF Len(fields) = 1 THEN writeField(fields[1])
    ELSE writeField(Head(fields)) \o <<", ">> \o writeFields(Tail(fields))

writeTextLog(level, fields) ==
    <<LevelString(level), " ", Message>>
    \o (IF Len(fields) > 0 \/ Len(additionalFields) > 0
        THEN <<" {">>
             \o writeFields(fields)
             \o (IF Len(fields) > 0 /\ Len(additionalFields) > 0
                 THEN <<", ">> ELSE <<>>)
             \o writeFields(additionalFields)
             \o <<"}">>
        ELSE <<>>)

\* a map assignment that keeps the value a key already has
PutIfAbsent(m, key, value) ==
    [x \in DOMAIN m \cup {key} |->
        IF x \in DOMAIN m THEN m[x] ELSE value]

\* logMap[key] = value
Put(m, key, value) ==
    [x \in DOMAIN m \cup {key} |-> IF x = key THEN value ELSE m[x]]

\* for _, field := range fields { logMap[field.Key] = field.Value }
RECURSIVE PutAll(_, _)
PutAll(m, fields) ==
    IF fields = <<>> THEN m
    ELSE PutAll(Put(m, Head(fields)[1], Head(fields)[2]), Tail(fields))

writeJSONLog(level, fields) ==
    LET standard == [x \in {"level", "message"} |->
                        IF x = "level" THEN LevelString(level) ELSE Message]
    IN  PutAll(PutAll(standard, fields), additionalFields)

formatEntry(level, fields) ==
    IF enableJSON THEN writeJSONLog(level, fields)
    ELSE writeTextLog(level, fields)

\* writeLog renders an entry of logger a: entry.Fields is a.fields
writeLogFormat(a, level) ==
    /\ Len(rendered) < MaxRendered
    /\ rendered' = Append(rendered,
                       [ad |-> a, out |-> formatEntry(level, FieldsOf(a))])
    /\ UNCHANGED <<enableJSON, additionalFields>>
    /\ UNCHANGED <<logVars, mwVars, cwVars, fwVars, cfgVars, itVars, appVars>>

\* a family with global fields, in text or in JSON format
InitRender ==
    /\ IdleApp
    /\ NewAdapter(InfoLevel, QueueCap)
    /\ byProducer = FALSE
    /\ NoCalls
    /\ enableJSON \in BOOLEAN
    /\ additionalFields \in FieldLists
    /\ rendered = <<>>
    /\ IdleMW
    /\ IdleCW
    /\ IdleFW

NextRender ==
    \/ \E a \in 1..Len(adapters), f \in FieldVals :
           Len(adapters) < MaxRenderFamily /\ WithFields(a, <<f>>)
    \/ \E a \in 1..Len(adapters) : writeLogFormat(a, InfoLevel)

SpecRender == InitRender /\ [][NextRender]_vars

\* the key=value occurrences of a text entry, in the order of the text
RECURSIVE TextPairs(_)
TextPairs(out) ==
    IF Len(out) < 3 THEN <<>>
    ELSE IF out[2] = "="
    THEN <<<<out[1], out[3]>>>> \o TextPairs(SubSeq(out, 4, Len(out)))
    ELSE TextPairs(Tail(out))

KeysOf(fields) == {fields[i][1] : i \in 1..Len(fields)}

\* the last field of the list that has the key
LastOf(key, fields) ==
    fields[CHOOSE i \in 1..Len(fields) :
               /\ fields[i][1] = key
               /\ \A j \in (i + 1)..Len(fields) : fields[j][1] # key]

\* the fields attached to rendered entry i, then the global fields
AttachedThenGlobal(i) == FieldsOf(rendered[i].ad) \o additionalFields

\* C27: a text entry shows every attached field in append order, duplicate
\* keys included, followed by the global fields; a JSON entry holds one
\* value per key, the value of the last attached field of that key, or the
\* value of the last global field of that key when there is one.
C27_DuplicateKeys ==
    \A i \in 1..Len(rendered) :
        LET all == AttachedThenGlobal(i)
            out == rendered[i].out
        IN  IF enableJSON
            THEN /\ DOMAIN out = {"level", "message"} \cup KeysOf(all)
                 /\ \A key \in KeysOf(all) : out[key] = LastOf(key, all)[2]
            ELSE TextPairs(out) =
                     [j \in 1..Len(all) |->
                         <<all[j][1], FormatValue(all[j][2])>>]

\* C27 witness: a JSON entry of a logger made by WithFields(k=1) and then
\* WithFields(k=2), with no global field: the entry holds k=2
C27_Witness ==
    /\ enableJSON
    /\ additionalFields = <<>>
    /\ \E i \in 1..Len(rendered) :
           /\ FieldsOf(rendered[i].ad) = <<<<"k", 1>>, <<"k", 2>>>>
           /\ rendered[i].out["k"] = 2

\* a text entry of the same logger with the global field k=1: the entry
\* shows k=1, k=2 and then k=1
C27_TextRendered ==
    /\ ~enableJSON
    /\ \E i \in 1..Len(rendered) :
           /\ FieldsOf(rendered[i].ad) = <<<<"k", 1>>, <<"k", 2>>>>
           /\ additionalFields = <<<<"k", 1>>>>
           /\ TextPairs(rendered[i].out)
                  = <<<<"k", "1">>, <<"k", "2">>, <<"k", "1">>>>

\* a JSON entry where the global field k=1 replaces the attached k=2
C27_GlobalReplaces ==
    /\ enableJSON
    /\ additionalFields = <<<<"k", 1>>>>
    /\ \E i \in 1..Len(rendered) :
           /\ FieldsOf(rendered[i].ad) = <<<<"k", 1>>, <<"k", 2>>>>
           /\ rendered[i].out["k"] = 1

(***************************************************************************)
(* Order of mw.Writers (SpecMW)                                            *)
(***************************************************************************)
\* the list without its element i
Without(writers, i) ==
    SubSeq(writers, 1, i - 1) \o SubSeq(writers, i + 1, Len(writers))

\* the writers that a Write has visited, in the order of its results
Visited == [i \in 1..Len(mwLast.results) |-> mwLast.results[i].writer]

\* C28: the write order is the insertion order. AddWriter puts the writer
\* after those registered before it, RemoveWriter takes one registration
\* out and leaves the others in the order of their registration, and a
\* Write visits the list from its first element to its last.
C28_Step ==
    /\ \A w \in WriterIds :
           AddWriter(w) => mwWriters' = Append(mwWriters, w)
    /\ \A w \in WriterIds :
           RemoveWriter(w) =>
               \/ mwWriters' = mwWriters
               \/ \E i \in 1..Len(mwWriters) :
                      mwWriters[i] = w /\ mwWriters' = Without(mwWriters, i)
    /\ (~WriteReturning /\ WriteReturning') => Visited' = mwWriters
C28_InsertionOrder == [][C28_Step]_vars

(***************************************************************************)
(* The logger's loop over mw.Writers (adapter.collectWriteResults) beside  *)
(* the calls that change the list under mw.mu.  The range loop evaluates   *)
(* the slice once: its length and its backing array; a later read of an    *)
(* element sees what the array holds then.  AddWriter and RemoveWriter     *)
(* lock, change the list and unlock in one step; Close closes one writer   *)
(* per step.                                                               *)
(***************************************************************************)
MaxCollected == 2

\* arr[k] = v when the array seen by the loop has an element k
SetAt(arr, k, v) == IF k <= Len(arr) THEN [arr EXCEPT ![k] = v] ELSE arr

\* for _, writer := range mwOutput.Writers: the slice is evaluated
collectWriteResultsRange ==
    /\ ranging.pc = "idle"
    /\ Len(collected) < MaxCollected
    /\ ranging' = [pc |-> "loop", n |-> Len(mwWriters), i |-> 1,
                   arr |-> mwWriters, shared |-> TRUE]
    /\ UNCHANGED <<mwMu, closing, closedSubs, collected>>
    /\ UNCHANGED <<logVars, mwVars, cwVars, fwVars, cfgVars, fmtVars, appVars>>

\* one iteration: a nil element is skipped, any other writer is written to
collectWriteResultsNext ==
    /\ ranging.pc = "loop"
    /\ ranging.i <= ranging.n
    /\ Len(collected) < MaxCollected
    /\ LET writer == ranging.arr[ranging.i]
       IN  IF writer = Nil
           THEN UNCHANGED collected
           ELSE collected' = Append(collected,
                                 [writer |-> writer,
                                  closed |-> writer \in closedSubs])
    /\ ranging' = [ranging EXCEPT !.i = @ + 1]
    /\ UNCHANGED <<mwMu, closing, closedSubs>>
    /\ UNCHANGED <<logVars, mwVars, cwVars, fwVars, cfgVars, fmtVars, appVars>>

\* return writeResults
collectWriteResultsReturn ==
    /\ ranging.pc = "loop"
    /\ ranging.i > ranging.n
    /\ ranging' = NoRange
    /\ UNCHANGED <<mwMu, closing, closedSubs, collected>>
    /\ UNCHANGED <<logVars, mwVars, cwVars, fwVars, cfgVars, fmtVars, appVars>>

\* MultiWriter.Close: mw.mu.Lock()
MultiWriterCloseLock ==
    /\ closing.pc = "idle"
    /\ mwMu = "free"
    /\ mwMu' = "Close"
    /\ closing' = [pc |-> "loop", i |-> 1]
    /\ UNCHANGED <<ranging, closedSubs, collected>>
    /\ UNCHANGED <<logVars, mwVars, cwVars, fwVars, cfgVars, fmtVars, appVars>>

\* MultiWriter.Close: writer.Close() on mw.Writers[i]
MultiWriterCloseNext ==
    /\ closing.pc = "loop"
    /\ closing.i <= Len(mwWriters)
    /\ LET writer == mwWriters[closing.i]
       IN  /\ closedSubs' = closedSubs \cup ({writer} \ {Nil})
           /\ fwFile' = IF writer = "w2"
                        THEN FileWriterCloseResult(fwFile, "none").file
                        ELSE fwFile
           /\ cwOutClosed' =
                  IF writer = "w1"
                  THEN ConsoleWriterCloseResult(cwOut, cwOutClosed,
                                                "none").closed
                  ELSE cwOutClosed
    /\ closing' = [closing EXCEPT !.i = @ + 1]
    /\ UNCHANGED <<mwMu, ranging, collected>>
    /\ UNCHANGED <<cwOut, closeLog, syncLog>>
    /\ UNCHANGED <<fwSize, fwMaxSize, fwCompress, files, now, fwTasks,
                   gzFiles, fwCalls, fwRotations, fwFaults>>
    /\ UNCHANGED <<logVars, mwVars, cfgVars, fmtVars, appVars>>

\* MultiWriter.Close: every element set to nil, mw.Writers = nil, and the
\* deferred mw.mu.Unlock()
MultiWriterCloseClear ==
    /\ closing.pc = "loop"
    /\ closing.i > Len(mwWriters)
    /\ mwWriters' = <<>>
    /\ mwCap' = 0
    /\ mwMu' = "free"
    /\ closing' = [pc |-> "done", i |-> 0]
    /\ ranging' = IF ranging.shared
                  THEN [ranging EXCEPT
                           !.arr = [k \in 1..ranging.n |-> Nil],
                           !.shared = FALSE]
                  ELSE ranging
    /\ UNCHANGED <<mwNames, mwLast, closedSubs, collected>>
    /\ UNCHANGED <<logVars, cwVars, fwVars, cfgVars, fmtVars, appVars>>

\* AddWriter beside the loop: an append in place is seen by the loop when
\* the element lies within the length it has evaluated
AddWriterBeside(w) ==
    /\ mwMu = "free"
    /\ Len(mwWriters) < MaxWriters
    /\ mwWriters' = Append(mwWriters, w)
    /\ mwCap' = growslice(mwCap, Len(mwWriters) + 1)
    /\ ranging' = IF ~ranging.shared THEN ranging
                  ELSE IF mwCap' # mwCap
                  THEN [ranging EXCEPT !.shared = FALSE]
                  ELSE [ranging EXCEPT
                           !.arr = SetAt(@, Len(mwWriters) + 1, w)]
    /\ UNCHANGED <<mwNames, mwLast, mwMu, closing, closedSubs, collected>>
    /\ UNCHANGED <<logVars, cwVars, fwVars, cfgVars, fmtVars, appVars>>

\* RemoveWriter beside the loop: both assignments are made in the array
RemoveWriterBeside(w) ==
    /\ mwMu = "free"
    /\ \E k \in 1..Len(mwWriters) : mwWriters[k] = w
    /\ LET i == CHOOSE k \in 1..Len(mwWriters) :
                    /\ mwWriters[k] = w
                    /\ \A j \in 1..(k - 1) : mwWriters[j] # w
           lastIdx == Len(mwWriters)
       IN  /\ mwWriters' = SubSeq([mwWriters EXCEPT
                                      ![i] = mwWriters[lastIdx]],
                                  1, lastIdx - 1)
           /\ ranging' =
                  IF ~ranging.shared THEN ranging
                  ELSE [ranging EXCEPT
                           !.arr = SetAt(SetAt(@, i, mwWriters[lastIdx]),
                                         lastIdx, Nil)]
    /\ UNCHANGED <<mwCap, mwNames, mwLast, mwMu, closing, closedSubs,
                   collected>>
    /\ UNCHANGED <<logVars, cwVars, fwVars, cfgVars, fmtVars, appVars>>

NextIter ==
    \/ collectWriteResultsRange
    \/ collectWriteResultsNext
    \/ collectWriteResultsReturn
    \/ MultiWriterCloseLock
    \/ MultiWriterCloseNext
    \/ MultiWriterCloseClear
    \/ \E w \in WriterIds : AddWriterBeside(w)
    \/ \E w \in WriterIds : RemoveWriterBeside(w)

SpecIter == InitClose /\ [][NextIter]_vars

\* the logger evaluates mw.Writers or reads one of its elements
LoggerReads == collectWriteResultsRange \/ collectWriteResultsNext

\* the logger is between the evaluation of the slice and its last read
InLoop == ranging.pc = "loop" /\ ranging.i <= ranging.n

\* C29: the logger's reads of the writer list never overlap a mutation of
\* the list by MultiWriter.Close, AddWriter or RemoveWriter: the logger
\* reads while no such call holds mw.mu, no such call changes the list
\* while the logger is inside its loop, and so the logger never writes to a
\* sub-writer that Close has already closed.
C29_Step ==
    /\ LoggerReads => mwMu = "free"
    /\ mwWriters' # mwWriters => ~InLoop
C29_State == \A k \in 1..Len(collected) : ~collected[k].closed
C29_ListReadsLocked == [][C29_Step /\ C29_State']_vars

(***************************************************************************)
(* Order of the writes of one producer (SpecFifo)                          *)
(***************************************************************************)
\* every log call so far was made by one and the same producer
SingleProducer == \A c \in CallIds : calls[c].by = calls[1].by

\* C30: with a single producer logging through one logger, the entries
\* reach the sink in the order of the log calls, whether a call went
\* through the queue or took the synchronous fallback: whenever the entry
\* of a call is in the sink, the entry of every earlier accepted call is in
\* the sink before it.
C30_SingleProducerOrder ==
    SingleProducer =>
        \A i, j \in CallIds :
            (i < j /\ Accepted(i) /\ Accepted(j)) =>
                \A kj \in 1..Len(sink) :
                    WrittenAt(j, kj) => \E ki \in 1..(kj - 1) : WrittenAt(i, ki)

(***************************************************************************)
(* cmd/pg/monitor main: the logger writes to a MultiWriter of the console  *)
(* writer and the file writer; main logs on its own goroutine and, when it *)
(* returns, its deferred function calls multiWriter.Sync() and then        *)
(* multiWriter.Close().  The process ends when main has returned.          *)
(***************************************************************************)
\* the goroutine of main
Main == "p1"

\* main is inside its loop: the deferred function has not started
MainRunning == syncLog = <<>> /\ closeLog = <<>>

\* initLogger has returned
InitMain ==
    /\ IdleApp
    /\ NewAdapter(DebugLevel, QueueCap)
    /\ byProducer = FALSE
    /\ NoCalls
    /\ NoFormat
    /\ NewMultiWriter(<<"w1", "w2">>)
    /\ mwLast = NoWrite
    /\ NoIteration
    /\ NewFileWriter(MaxSizeLimit, TRUE, 0)
    /\ cwOut = "osFile"
    /\ cwOutClosed = FALSE
    /\ closeLog = <<>>
    /\ syncLog = <<>>

NextMain ==
    \/ \E level \in Levels : MainRunning /\ log(Main, 1, level)
    \/ MainRunning /\ logSend(Main)
    \/ MainRunning /\ logTimeout(Main)
    \/ MainRunning /\ logFallbackLock(Main)
    \/ MainRunning /\ logFallbackWrite(Main, Complete)
    \/ closeLog = <<>> /\ processLogsRecv
    \/ closeLog = <<>> /\ processLogsLock
    \/ closeLog = <<>> /\ processLogsWrite(Complete)
    \/ \E faults \in FaultsFor(mwWriters, SyncFaults) :
           /\ MainRunning
           /\ ppc[Main] = "idle"
           /\ MultiWriterSync(faults)
    \/ \E faults \in FaultsFor(mwWriters, CloseFaults) :
           /\ Len(syncLog) = 1
           /\ closeLog = <<>>
           /\ MultiWriterClose(faults)

SpecMain == InitMain /\ [][NextMain]_vars

\* every entry that main has logged is in the sink
AllLoggedWritten == \A c \in CallIds : Accepted(c) => Count(c, sink) = 1

\* an entry is written to the writers of the MultiWriter
ReachesWriter == Len(sink') > Len(sink)

\* C31: shutdown of the monitor command is drain-then-flush: when the
\* MultiWriter is synced, and when it is closed, every entry logged before
\* main returned has been written to the writers, and no write reaches a
\* writer after the MultiWriter was closed.
C31_Step ==
    /\ syncLog' # syncLog => AllLoggedWritten
    /\ closeLog' # closeLog => AllLoggedWritten
    /\ ReachesWriter => closeLog = <<>>
C31_DrainThenFlush == [][C31_Step]_vars

(***************************************************************************)
(* Monitor (package pg): TrackQuery, collectMetrics and GetHealthStatus,   *)
(* each under m.mu.  A QueryMetric is the number of its TrackQuery call,   *)
(* an error is the number of the failed Ping.  A *PoolStats is an index    *)
(* into poolStats.  The elements of a returned Errors slice are not        *)
(* written again: append writes behind them, Errors[1:] moves the start.   *)
(***************************************************************************)
\* number of TrackQuery calls, of collectMetrics calls and of snapshots
MaxTracked == 3
MaxCollects == 2
MaxSnapshots == 1
\* largest maxMetrics and MaxErrors of a Monitor
MaxStored == 2

\* no logger, no writer
IdleLogger == IdleLog /\ IdleMW /\ IdleCW /\ IdleFW

\* &PoolStats{}
ZeroStats == [slow |-> 0, failed |-> 0, errorCount |-> 0, lastError |-> 0]

\* NewMonitor, with the given limits in place of MaxMetricsToStore and
\* HealthStatusMaxErrors
NewMonitor(limit, maxErrors) ==
    /\ metrics = <<>>
    /\ maxMetrics = limit
    /\ poolStats = <<ZeroStats>>
    /\ healthStatus = [connected |-> FALSE, stats |-> 1, errors |-> <<>>,
                       maxErrors |-> maxErrors]
    /\ snapshots = <<>>
    /\ tracked = 0
    /\ pingErrors = 0

\* the list keeps its oldest element and drops the new one
appendBoundedKeepOldest(list, x, max) ==
    IF Len(list) + 1 > max THEN list ELSE Append(list, x)

\* list = append(list, x); if len(list) > max { list = list[1:] }
appendBounded(list, x, max) ==
    LET longer == Append(list, x)
    IN  IF Len(longer) > max THEN Tail(longer) ELSE longer

\* TrackQuery of a query that was slow (duration > slowQueryThreshold) and
\* that failed (err != nil) or not
TrackQuery(slow, failed) ==
    /\ tracked < MaxTracked
    /\ tracked' = tracked + 1
    /\ metrics' = appendBounded(metrics, tracked + 1, maxMetrics)
    /\ poolStats' = [poolStats EXCEPT
           ![healthStatus.stats].slow = @ + (IF slow THEN 1 ELSE 0),
           ![healthStatus.stats].failed = @ + (IF failed THEN 1 ELSE 0)]
    /\ UNCHANGED <<maxMetrics, healthStatus, snapshots, pingErrors>>
    /\ UNCHANGED notMon

\* collectMetrics: nothing when the pool has no statistics, else a new
\* PoolStats with the counters of the current one, the result of Ping, and
\* the error of a failed Ping added to the Errors
collectMetrics(hasStats, pingFails) ==
    /\ Len(poolStats) <= MaxCollects
    /\ IF ~hasStats
       THEN UNCHANGED <<healthStatus, poolStats, pingErrors>>
       ELSE LET cur == poolStats[healthStatus.stats]
                err == pingErrors + 1
                stats == IF pingFails
                         THEN [cur EXCEPT !.lastError = err,
                                          !.errorCount = @ + 1]
                         ELSE cur
            IN  /\ poolStats' = Append(poolStats, stats)
                /\ pingErrors' = IF pingFails THEN err ELSE pingErrors
                /\ healthStatus' =
                       [healthStatus EXCEPT
                           !.connected = ~pingFails,
                           !.stats = Len(poolStats) + 1,
                           !.errors = IF pingFails
                                      THEN appendBounded(@, err,
                                               healthStatus.maxErrors)
                                      ELSE @]
    /\ UNCHANGED <<metrics, maxMetrics, snapshots, tracked>>
    /\ UNCHANGED notMon

\* GetHealthStatus: status := *m.healthStatus; return &status. The history
\* keeps the copy and the counters that the caller reads through it when
\* the call returns.
GetHealthStatus ==
    /\ Len(snapshots) < MaxSnapshots
    /\ snapshots' = Append(snapshots,
                        [status |-> healthStatus,
                         read |-> poolStats[healthStatus.stats]])
    /\ UNCHANGED <<metrics, maxMetrics, healthStatus, poolStats, tracked,
                   pingErrors>>
    /\ UNCHANGED notMon

InitMon ==
    /\ IdleLogger
    /\ IdlePool
    /\ IdlePG
    /\ IdleGCP
    /\ IdleConf
    /\ \E limit, maxErrors \in 1..MaxStored : NewMonitor(limit, maxErrors)

NextMon ==
    \/ \E slow, failed \in BOOLEAN : TrackQuery(slow, failed)
    \/ \E hasStats, pingFails \in BOOLEAN : collectMetrics(hasStats, pingFails)
    \/ GetHealthStatus

SpecMon == InitMon /\ [][NextMon]_vars

\* the Monitor with the two operations that write its histories
NextHist ==
    \/ \E slow, failed \in BOOLEAN : TrackQuery(slow, failed)
    \/ \E hasStats, pingFails \in BOOLEAN : collectMetrics(hasStats, pingFails)

SpecHist == InitMon /\ [][NextHist]_vars

\* C32: GetHealthStatus returns a snapshot: what is read through a returned
\* HealthStatus (Connected, the counters of its PoolStats, the Errors) is
\* what it was when the call returned, whatever TrackQuery and
\* collectMetrics do afterwards.
C32_Snapshot ==
    \A k \in 1..Len(snapshots) :
        LET s == snapshots[k]
        IN  poolStats[s.status.stats] = s.read

\* the last n of the numbers 1..total, in order
LastOnes(total, n) == [i \in 1..n |-> total - n + i]

Min(a, b) == IF a <= b THEN a ELSE b

\* C33: the stored metrics never exceed maxMetrics and are the most recent
\* min(n, maxMetrics) of the n TrackQuery calls, in call order; the health
\* status never holds more than MaxErrors errors and holds the most recent
\* ones in order.
C33_BoundedHistory ==
    /\ Len(metrics) <= maxMetrics
    /\ metrics = LastOnes(tracked, Min(tracked, maxMetrics))
    /\ Len(healthStatus.errors) <= healthStatus.maxErrors
    /\ healthStatus.errors
           = LastOnes(pingErrors, Min(pingErrors, healthStatus.maxErrors))

\* C33 witness: three calls with room for two metrics, two errors with room
\* for one: the oldest of each is gone
C33_Witness ==
    /\ tracked = 3
    /\ maxMetrics = 2
    /\ metrics = <<2, 3>>
    /\ pingErrors = 2
    /\ healthStatus.maxErrors = 1
    /\ healthStatus.errors = <<2>>

(***************************************************************************)
(* Manager (package pg): Connect, step by step, and Transaction.           *)
(***************************************************************************)
\* largest m.cfg.ConnAttempts, number of Connect and of Transaction calls
MaxConnAttempts == 3
MaxConnects == 2
MaxTx == 2

\* New(cfg, logger) with the given cfg.ConnAttempts
NewManager(n) ==
    /\ pool = 0
    /\ connAttempts = n
    /\ connPc = "idle"
    /\ attempt = 0
    /\ created = <<>>
    /\ connRet = "none"
    /\ ctxDone = FALSE
    /\ connects = 0
    /\ txs = <<>>

\* the context given to Connect is cancelled
CancelContext ==
    /\ connPc \in {"attempt", "wait", "ping"}
    /\ ~ctxDone
    /\ ctxDone' = TRUE
    /\ UNCHANGED <<pool, connAttempts, connPc, attempt, created, connRet,
                   connects, txs>>
    /\ UNCHANGED notPG

\* Connect is called: ParseConfig, then the loop `for attempt := 1;
\* attempt <= m.cfg.ConnAttempts` is entered or skipped
ConnectCall(parseOk) ==
    /\ connPc \in {"idle", "done"}
    /\ connects < MaxConnects
    /\ connects' = connects + 1
    /\ created' = <<>>
    /\ ctxDone' = FALSE
    /\ IF ~parseOk
       THEN /\ connPc' = "done"
            /\ connRet' = "error"
            /\ attempt' = 0
       ELSE /\ connPc' = IF 1 <= connAttempts THEN "attempt" ELSE "ping"
            /\ connRet' = "none"
            /\ attempt' = 1
    /\ UNCHANGED <<pool, connAttempts, txs>>
    /\ UNCHANGED notPG

\* an attempt that goes on after a success
ConnectAttemptNoBreak(ok) ==
    /\ connPc = "attempt"
    /\ pool' = IF ok THEN Len(created) + 1 ELSE 0
    /\ created' = Append(created, ok)
    /\ IF attempt = connAttempts
       THEN /\ connPc' = (IF ok THEN "ping" ELSE "done")
            /\ connRet' = (IF ok THEN "none" ELSE "error")
       ELSE /\ connPc' = "wait"
            /\ connRet' = "none"
    /\ UNCHANGED <<connAttempts, attempt, ctxDone, connects, txs>>
    /\ UNCHANGED notPG

\* m.pool, err = pgxpool.NewWithConfig(...): break on success, return the
\* error after the last attempt, else go to the back-off wait
ConnectAttempt(ok) ==
    /\ connPc = "attempt"
    /\ pool' = IF ok THEN Len(created) + 1 ELSE 0
    /\ created' = Append(created, ok)
    /\ IF ok
       THEN /\ connPc' = "ping"
            /\ connRet' = "none"
       ELSE IF attempt = connAttempts
       THEN /\ connPc' = "done"
            /\ connRet' = "error"
       ELSE /\ connPc' = "wait"
            /\ connRet' = "none"
    /\ UNCHANGED <<connAttempts, attempt, ctxDone, connects, txs>>
    /\ UNCHANGED notPG

\* the select of the back-off wait: ctx.Done() when the context is
\* cancelled, time.After when the timer has fired; either when both are
\* ready
ConnectWait(fired, takeDone) ==
    /\ connPc = "wait"
    /\ fired \/ ctxDone
    /\ IF ctxDone /\ (takeDone \/ ~fired)
       THEN /\ connPc' = "done"
            /\ connRet' = "error"
            /\ UNCHANGED attempt
       ELSE /\ connPc' = "attempt"
            /\ connRet' = "none"
            /\ attempt' = attempt + 1
    /\ UNCHANGED <<pool, connAttempts, created, ctxDone, connects, txs>>
    /\ UNCHANGED notPG

\* Ping: an error when m.pool is nil, else the result of m.pool.Ping, which
\* fails under a cancelled context
Ping(ok) == pool # 0 /\ ok /\ ~ctxDone

\* the verifying Ping of Connect and its return
ConnectPing(ok) ==
    /\ connPc = "ping"
    /\ connPc' = "done"
    /\ connRet' = IF Ping(ok) THEN "nil" ELSE "error"
    /\ UNCHANGED <<pool, connAttempts, attempt, created, ctxDone, connects, txs>>
    /\ UNCHANGED notPG

\* a Transaction that commits whatever the callback returned
runTransactionCommitAlways(connected, beginOk, fn, rbOk, commitOk) ==
    IF ~connected \/ ~beginOk
    THEN [began |-> FALSE, fn |-> "notcalled", calls |-> <<>>, ret |-> "error"]
    ELSE IF fn = "panic"
    THEN [began |-> TRUE, fn |-> fn, calls |-> <<>>, ret |-> "panic"]
    ELSE [began |-> TRUE, fn |-> fn, calls |-> <<"Commit">>,
          ret |-> IF commitOk THEN "nil" ELSE "error"]

\* Transaction: what it calls on the transaction and what it returns, for
\* the outcome of m.pool.Begin, of the callback ("nil", "error", "panic"),
\* of tx.Rollback and of tx.Commit
runTransaction(connected, beginOk, fn, rbOk, commitOk) ==
    IF ~connected \/ ~beginOk
    THEN [began |-> FALSE, fn |-> "notcalled", calls |-> <<>>, ret |-> "error"]
    ELSE IF fn = "panic"
    THEN [began |-> TRUE, fn |-> fn, calls |-> <<>>, ret |-> "panic"]
    ELSE IF fn = "error"
    THEN [began |-> TRUE, fn |-> fn, calls |-> <<"Rollback">>, ret |-> "error"]
    ELSE [began |-> TRUE, fn |-> fn, calls |-> <<"Commit">>,
          ret |-> IF commitOk THEN "nil" ELSE "error"]

FnOutcomes == {"nil", "error", "panic"}

Transaction(beginOk, fn, rbOk, commitOk) ==
    /\ connPc \in {"idle", "done"}
    /\ Len(txs) < MaxTx
    /\ txs' = Append(txs, [connected |-> pool # 0, commitOk |-> commitOk]
                   @@ runTransaction(pool # 0, beginOk, fn, rbOk, commitOk))
    /\ UNCHANGED <<pool, connAttempts, connPc, attempt, created, connRet,
                   ctxDone, connects>>
    /\ UNCHANGED notPG

InitPG ==
    /\ IdleLogger
    /\ IdlePool
    /\ IdleMon
    /\ IdleGCP
    /\ IdleConf
    /\ \E n \in 0..MaxConnAttempts : NewManager(n)

NextPG ==
    \/ \E parseOk \in BOOLEAN : ConnectCall(parseOk)
    \/ \E ok \in BOOLEAN : ConnectAttempt(ok)
    \/ \E fired, takeDone \in BOOLEAN : ConnectWait(fired, takeDone)
    \/ \E ok \in BOOLEAN : ConnectPing(ok)
    \/ CancelContext
    \/ \E beginOk, rbOk, commitOk \in BOOLEAN, fn \in FnOutcomes :
           Transaction(beginOk, fn, rbOk, commitOk)

SpecPG == InitPG /\ [][NextPG]_vars

Successes == Count(TRUE, created)

\* C35: Connect makes at most ConnAttempts attempts to create a pool and
\* none after the first success; it returns nil only if a pool is there
\* and the verifying Ping succeeded; it returns an error after
\* ConnAttempts failures and when the context is cancelled during a
\* back-off wait.
C35_Step ==
    /\ Len(created') <= connAttempts
    /\ Successes' <= 1
    /\ (Successes = 1 /\ connects' = connects) => created' = created
    /\ (connRet' = "nil" /\ connRet # "nil") =>
           pool # 0 /\ connPc = "ping" /\ ~ctxDone
    /\ (connPc' = "done" /\ connPc # "done" /\ connRet' # "error") =>
           Successes' = 1 \/ (connAttempts = 0 /\ pool # 0)
    /\ (connPc' = "done" /\ connPc # "done"
        /\ Len(created') = connAttempts /\ Successes' = 0) =>
           connRet' = "error"
    /\ (connPc = "wait" /\ connPc' = "done") => connRet' = "error" /\ ctxDone

C35_ConnectRetries == [][C35_Step]_vars

\* C35 witness: ConnAttempts is 3, two attempts failed, the third made the
\* pool and Connect returned nil
C35_Witness ==
    /\ connAttempts = 3
    /\ created = <<FALSE, FALSE, TRUE>>
    /\ connRet = "nil"
    /\ pool # 0

(***************************************************************************)
(* Provider (package gcp): New and the retry loop of GetSecret.  The       *)
(* outcome of an AccessSecretVersion is 0 for an error, else the payload.  *)
(***************************************************************************)
\* largest configured MaxRetries, largest payload, number of GetSecret calls
MaxRetriesCfg == 2
MaxSecret == 2
MaxGets == 2

\* `if cfg.MaxRetries == 0 { cfg.MaxRetries = 3 }`
DefaultMaxRetries == 3

\* New with the given cfg.MaxRetries
NewProvider(n) ==
    /\ maxRetries = IF n = 0 THEN DefaultMaxRetries ELSE n
    /\ gets = <<>>

\* the outcomes of as many AccessSecretVersion calls as a GetSecret can make
AccessOutcomes ==
    LET most == IF MaxRetriesCfg > DefaultMaxRetries THEN MaxRetriesCfg
                ELSE DefaultMaxRetries
    IN  [1..(most + 1) -> 0..MaxSecret]

\* the loop of GetSecret from attempt `at` on: the number of attempts
\* made, the payload and whether the error is non-nil
RECURSIVE retry(_, _, _)
retry(n, outcomes, at) ==
    IF at > n
    THEN [attempts |-> at, payload |-> 0, err |-> FALSE]
    ELSE IF outcomes[at + 1] # 0
    THEN [attempts |-> at + 1, payload |-> outcomes[at + 1],
          err |-> FALSE]
    ELSE IF at = n
    THEN [attempts |-> at + 1, payload |-> 0, err |-> TRUE]
    ELSE retry(n, outcomes, at + 1)

\* GetSecret; the history keeps the outcomes of the attempts it made
GetSecret(outcomes) ==
    LET r == retry(maxRetries, outcomes, 0)
    IN  /\ Len(gets) < MaxGets
        /\ gets' = Append(gets, [r EXCEPT !.attempts =
                                     SubSeq(outcomes, 1, r.attempts)])
        /\ UNCHANGED maxRetries
        /\ UNCHANGED notGCP

InitGCP ==
    /\ IdleLogger
    /\ IdlePool
    /\ IdleMon
    /\ IdlePG
    /\ IdleConf
    /\ \E n \in (-1)..MaxRetriesCfg : NewProvider(n)

NextGCP == \E outcomes \in AccessOutcomes : GetSecret(outcomes)

SpecGCP == InitGCP /\ [][NextGCP]_vars

\* C36: for every MaxRetries, GetSecret makes at most MaxRetries+1 access
\* attempts, returns the payload of the first successful attempt, returns
\* a nil error only if some attempt succeeded, and a non-nil error when
\* all attempts failed.
C36_GetSecretRetry ==
    \A k \in 1..Len(gets) :
        LET g == gets[k]
            n == Len(g.attempts)
            succeeded == \E i \in 1..n : g.attempts[i] # 0
        IN  /\ n <= maxRetries + 1
            /\ \A i \in 1..(n - 1) : g.attempts[i] = 0
            /\ succeeded => g.payload = g.attempts[n] /\ ~g.err
            /\ ~g.err => succeeded
            /\ ~succeeded => g.err

(***************************************************************************)
(* Config (package config): NewConfig with initializeSecrets,              *)
(* ReloadSecrets and RotateSecrets.  A credential is a number, 0 the empty *)
(* string; a generated credential is a number above MaxCred.               *)
(***************************************************************************)
\* largest credential of the config file and of the provider, number of
\* ReloadSecrets and RotateSecrets calls
MaxCred == 2
MaxConfCalls == 2

Creds == (0..MaxCred) \X (0..MaxCred)

\* applySecrets: the non-empty credentials of c.Secrets go to c.DB
applySecrets(db, secrets) ==
    <<IF secrets[1] # 0 THEN secrets[1] ELSE db[1],
      IF secrets[2] # 0 THEN secrets[2] ELSE db[2]>>

\* Manager.Load into the given store: the store it leaves and whether it
\* returned nil
Load(store, userOk, passOk) ==
    IF ~userOk THEN [store |-> store, ok |-> FALSE]
    ELSE IF ~passOk THEN [store |-> <<provider[1], store[2]>>, ok |-> FALSE]
    ELSE [store |-> provider, ok |-> provider[1] # 0 /\ provider[2] # 0]

\* NewConfig: initializeSecrets when a provider is given (its Manager is a
\* local variable), then validateConfig
NewConfig(userOk, passOk, valid) ==
    /\ confState = "none"
    /\ LET loaded == Load(<<0, 0>>, userOk, passOk)
       IN  IF withProvider /\ ~loaded.ok
           THEN /\ confState' = "failed"
                /\ UNCHANGED <<cfgSecrets, cfgDB>>
           ELSE /\ confState' = IF valid THEN "ok" ELSE "failed"
                /\ cfgSecrets' = IF withProvider THEN loaded.store ELSE <<>>
                /\ cfgDB' = IF withProvider
                            THEN applySecrets(cfgDB, loaded.store)
                            ELSE cfgDB
    /\ UNCHANGED <<withProvider, secretsManager, provider, confCalls, confRet>>
    /\ UNCHANGED notConf

\* ReloadSecrets on the Config that NewConfig returned
ReloadSecrets(userOk, passOk) ==
    /\ confState = "ok"
    /\ confCalls < MaxConfCalls
    /\ confCalls' = confCalls + 1
    /\ IF ~secretsManager.set
       THEN /\ confRet' = [op |-> "ReloadSecrets", ret |-> "uninitialized"]
            /\ UNCHANGED <<secretsManager, cfgSecrets, cfgDB>>
       ELSE LET loaded == Load(secretsManager.store, userOk, passOk)
            IN  /\ secretsManager' = [secretsManager EXCEPT
                                         !.store = loaded.store]
                /\ IF loaded.ok
                   THEN /\ cfgSecrets' = loaded.store
                        /\ cfgDB' = applySecrets(cfgDB, loaded.store)
                        /\ confRet' = [op |-> "ReloadSecrets", ret |-> "nil"]
                   ELSE /\ confRet' = [op |-> "ReloadSecrets", ret |-> "reloading"]
                        /\ UNCHANGED <<cfgSecrets, cfgDB>>
    /\ UNCHANGED <<confState, withProvider, provider>>
    /\ UNCHANGED notConf

\* the credentials that generateSecureString makes in this call
Generated == <<MaxCred + 2 * confCalls + 1, MaxCred + 2 * confCalls + 2>>

\* RotateSecrets: performRotation (generate, SetSecret of the username,
\* SetSecret of the password, verify; on an error handleRotationFailure
\* with rollbackRotations, which does nothing), then c.Secrets,
\* applySecrets and the callbacks
RotateSecrets(genOk, userOk, passOk, callbacksOk) ==
    /\ confState = "ok"
    /\ confCalls < MaxConfCalls
    /\ confCalls' = confCalls + 1
    /\ IF ~secretsManager.set
       THEN /\ confRet' = [op |-> "RotateSecrets", ret |-> "uninitialized"]
            /\ UNCHANGED <<cfgSecrets, cfgDB, provider>>
       ELSE IF ~genOk \/ ~userOk
       THEN /\ confRet' = [op |-> "RotateSecrets", ret |-> "rotation"]
            /\ UNCHANGED <<cfgSecrets, cfgDB, provider>>
       ELSE IF ~passOk
       THEN /\ confRet' = [op |-> "RotateSecrets", ret |-> "rotation"]
            /\ provider' = <<Generated[1], provider[2]>>
            /\ UNCHANGED <<cfgSecrets, cfgDB>>
       ELSE /\ provider' = Generated
            /\ cfgSecrets' = Generated
            /\ cfgDB' = applySecrets(cfgDB, Generated)
            /\ confRet' = [op |-> "RotateSecrets",
                          ret |-> IF callbacksOk THEN "nil" ELSE "callbacks"]
    /\ UNCHANGED <<confState, withProvider, secretsManager>>
    /\ UNCHANGED notConf

\* before NewConfig: the DB credentials of the config file, the options and
\* what the provider holds
InitConfig ==
    /\ IdleLogger
    /\ IdlePool
    /\ IdleMon
    /\ IdlePG
    /\ IdleGCP
    /\ confState = "none"
    /\ withProvider \in BOOLEAN
    /\ secretsManager = [set |-> FALSE, store |-> <<0, 0>>]
    /\ cfgSecrets = <<>>
    /\ cfgDB \in Creds
    /\ provider \in Creds
    /\ confCalls = 0
    /\ confRet = [op |-> "none", ret |-> "none"]

NextConfig ==
    \/ \E userOk, passOk, valid \in BOOLEAN : NewConfig(userOk, passOk, valid)
    \/ \E userOk, passOk \in BOOLEAN : ReloadSecrets(userOk, passOk)
    \/ \E genOk, userOk, passOk, callbacksOk \in BOOLEAN :
           RotateSecrets(genOk, userOk, passOk, callbacksOk)

SpecConfig == InitConfig /\ [][NextConfig]_vars

\* C37: after NewConfig succeeded with a SecretsProvider the Config holds
\* an initialized secrets manager, and no ReloadSecrets or RotateSecrets on
\* it stops at the 'secrets manager not initialized' check.
C37_ManagerInitialized ==
    (confState = "ok" /\ withProvider) =>
        secretsManager.set /\ confRet.ret # "uninitialized"

\* a Config whose secretsManager is set and holds the secrets it loaded,
\* and a provider whose secrets may have been changed since.
\* NewConfig does not make one (C37); code of package config can, the
\* field being unexported.
InitRotate ==
    /\ IdleLogger
    /\ IdlePool
    /\ IdleMon
    /\ IdlePG
    /\ IdleGCP
    /\ confState = "ok"
    /\ withProvider = TRUE
    /\ provider \in (1..MaxCred) \X (1..MaxCred)
    /\ \E loaded \in (1..MaxCred) \X (1..MaxCred) :
           /\ secretsManager = [set |-> TRUE, store |-> loaded]
           /\ cfgSecrets = loaded
           /\ cfgDB = loaded
    /\ confCalls = 0
    /\ confRet = [op |-> "none", ret |-> "none"]

NextRotate ==
    \/ \E userOk, passOk \in BOOLEAN : ReloadSecrets(userOk, passOk)
    \/ \E genOk, userOk, passOk, callbacksOk \in BOOLEAN :
           RotateSecrets(genOk, userOk, passOk, callbacksOk)

SpecRotate == InitRotate /\ [][NextRotate]_vars

\* C38: when RotateSecrets returns an error from the rotation step,
\* Config.Secrets, the DB username and password of the Config and the
\* credentials held by the provider are what they were before the call.
C38_Step ==
    (confCalls' # confCalls /\ confRet'.ret = "rotation") =>
        /\ cfgSecrets' = cfgSecrets
        /\ cfgDB' = cfgDB
        /\ provider' = provider

MaxWriteLogs == 3

\* a Get that leaves the buffer in the pool
getBufferKept(t, b) ==
    /\ inWrite[t].pc = "idle"
    /\ started < MaxWriteLogs
    /\ started' = started + 1
    /\ b \in bufFree \cup {Len(bufBytes) + 1}
    /\ bufFree' = bufFree
    /\ bufBytes' = IF b \in bufFree THEN [bufBytes EXCEPT ![b] = 0]
                   ELSE Append(bufBytes, 0)
    /\ inWrite' = [inWrite EXCEPT ![t] =
                      [pc |-> "got", entry |-> started + 1, buf |-> b]]
    /\ UNCHANGED <<outMu, written>>
    /\ UNCHANGED notPool

\* writeLog is entered for a new entry; getBuffer: bufferPool.Get() gives a
\* buffer of the pool, which leaves the pool, or a new one (sync.Pool may
\* drop what it holds); Reset
getBuffer(t, b) ==
    /\ inWrite[t].pc = "idle"
    /\ started < MaxWriteLogs
    /\ started' = started + 1
    /\ b \in bufFree \cup {Len(bufBytes) + 1}
    /\ bufFree' = bufFree \ {b}
    /\ bufBytes' = IF b \in bufFree THEN [bufBytes EXCEPT ![b] = 0]
                   ELSE Append(bufBytes, 0)
    /\ inWrite' = [inWrite EXCEPT ![t] =
                      [pc |-> "got", entry |-> started + 1, buf |-> b]]
    /\ UNCHANGED <<outMu, written>>
    /\ UNCHANGED notPool

\* a.formatEntry(buf, entry); a.ensureNewline(buf); contents := buf.Bytes()
formatBuffer(t) ==
    /\ inWrite[t].pc = "got"
    /\ bufBytes' = [bufBytes EXCEPT ![inWrite[t].buf] = inWrite[t].entry]
    /\ inWrite' = [inWrite EXCEPT ![t].pc = "formatted"]
    /\ UNCHANGED <<bufFree, outMu, written, started>>
    /\ UNCHANGED notPool

\* a.mu.Lock()
writeLogMu(t) ==
    /\ inWrite[t].pc = "formatted"
    /\ outMu = "free"
    /\ outMu' = t
    /\ inWrite' = [inWrite EXCEPT ![t].pc = "locked"]
    /\ UNCHANGED <<bufFree, bufBytes, written, started>>
    /\ UNCHANGED notPool

\* handleMultiWriter or handleSingleWriter: the writers are given contents
\* and return before writeLog goes on
writeLogSink(t) ==
    /\ inWrite[t].pc = "locked"
    /\ written' = Append(written, [entry |-> inWrite[t].entry,
                                   bytes |-> bufBytes[inWrite[t].buf]])
    /\ inWrite' = [inWrite EXCEPT ![t].pc = "done"]
    /\ UNCHANGED <<bufFree, bufBytes, outMu, started>>
    /\ UNCHANGED notPool

\* the deferred a.mu.Unlock()
writeLogUnlock(t) ==
    /\ inWrite[t].pc = "done"
    /\ outMu' = "free"
    /\ inWrite' = [inWrite EXCEPT ![t].pc = "unlocked"]
    /\ UNCHANGED <<bufFree, bufBytes, written, started>>
    /\ UNCHANGED notPool

\* the deferred bufferPool.Put(buf), the last step of writeLog
bufferPoolPut(t) ==
    /\ inWrite[t].pc = "unlocked"
    /\ bufFree' = bufFree \cup {inWrite[t].buf}
    /\ inWrite' = [inWrite EXCEPT ![t] = [pc |-> "idle", entry |-> 0, buf |-> 0]]
    /\ UNCHANGED <<bufBytes, outMu, written, started>>
    /\ UNCHANGED notPool

InitPool ==
    /\ IdleLogger
    /\ IdleMon
    /\ IdlePG
    /\ IdleGCP
    /\ IdleConf
    /\ IdlePool

NextPool ==
    \E t \in Executors :
        \/ \E b \in 1..(Len(bufBytes) + 1) : getBuffer(t, b)
        \/ formatBuffer(t)
        \/ writeLogMu(t)
        \/ writeLogSink(t)
        \/ writeLogUnlock(t)
        \/ bufferPoolPut(t)

SpecPool == InitPool /\ [][NextPool]_vars

\* an executor of writeLog has a buffer
Holds(t) == inWrite[t].pc # "idle"

\* C39: a formatting buffer is in the pool only after the sink write that
\* reads its bytes has completed, and no two concurrent executions of
\* writeLog hold the same buffer; so every sink write receives the bytes
\* of its own entry.
C39_BufferExclusive ==
    /\ \A t \in Executors : Holds(t) => inWrite[t].buf \notin bufFree
    /\ \A t, u \in Executors :
           (t # u /\ Holds(t) /\ Holds(u)) => inWrite[t].buf # inWrite[u].buf
    /\ \A k \in 1..Len(written) : written[k].bytes = written[k].entry

\* C39 witness: a buffer that was put back is held again, by an executor
\* that has formatted its entry in it while another executor is in
\* writeLog with a buffer of its own
C39_Witness ==
    \E t, u \in Executors :
        /\ t # u
        /\ inWrite[t].pc = "locked"
        /\ inWrite[u].pc = "formatted"
        /\ inWrite[u].buf = 1
        /\ inWrite[u].entry = 3
        /\ written # <<>>

====
